---- MODULE Spec2Model ----
(***************************************************************************)
(* A model of the Sui replay transaction viewer                            *)
(* (src/sui-replay-web-view/transaction-viewer.js): the byte decoder, the  *)
(* type-tree normalizer, and the Transaction aggregate with its command    *)
(* type inference.                                                         *)
(*                                                                         *)
(* Representation of JavaScript values                                     *)
(*   null                 [null |-> TRUE]                                  *)
(*   a string             [str |-> s]  (s a TLA+ string, or a sequence of  *)
(*                        one-character strings where the code looks       *)
(*                        inside the string)                               *)
(*   a boolean            [bool |-> b]                                     *)
(*   a Number             [number |-> m, neg |-> b]: magnitude m and sign  *)
(*   a BigInt             [bigint |-> m]                                   *)
(*   an array of values   [arr |-> <<...>>]                                *)
(*   an object            a record with the object's keys                  *)
(* A magnitude is a little-endian sequence of base-256 digits without      *)
(* high zero digits (<<>> is 0): TLC's integers are 32 bits wide, the      *)
(* decoded values are up to 256 bits wide.  An int32 (the result of a      *)
(* JavaScript bitwise operator) is a TLC integer.                          *)
(***************************************************************************)
EXTENDS Integers, Sequences, FiniteSets, TLC

VARIABLES
    dBytes,     \* decoder: the byte buffer handed to the decoder
    dN,         \* decoder: the number dBytes is the ULEB128 encoding of (dSrc = "uleb")
    dSrc,       \* decoder: "raw" (any buffer), "uleb" (a canonical encoding of dN), "idle"
    dType,      \* decoder: the type input of the last call (or Null)
    dOp,        \* decoder: the function last applied to dBytes ("none" before)
    dOut,       \* decoder: what it returned
    aCore,      \* addresses: hex digits without leading zeros
    aA,         \* addresses: a spelling of aCore (optional 0x, leading zeros)
    aB,         \* addresses: another spelling of aCore
    aOut,       \* addresses: normalizeAddress of aA (A), of aB (B), of the result A (AA)
    tIdent,     \* types: the (address, module, name, type_args) being encoded
    tOut,       \* types: fromTypeStructure of each encoding of tIdent computed so far
    tAlt,       \* types: tIdent's address in another spelling, and what it normalizes to
    tRaw,       \* types: an arbitrary JSON value handed to fromTypeStructure, and the outcome
    files,      \* viewer: this.files, the five parsed artifacts (Null: not loaded)
    pc,         \* viewer: where analyzeTransaction / Transaction.fromFiles stands
    transaction,        \* fromFiles: the Transaction being built (Null before `new`)
    viewerTransaction,  \* viewer: this.transaction
    commandReturnTypes, \* viewer: this.commandReturnTypes (Null before the overview)
    eff,        \* effects: one description of the effects loaded in the V1 and the V2 shape
    supplied,   \* viewer: the five artifacts as they were handed to the viewer
    pType,      \* parser: the MoveType that is rendered and parsed back
    pOut,       \* parser: the rendered string, its parse tree and the tree's rendering
    readers,    \* loader: the FileReaders whose onload has not run yet
    selection,  \* loader: how many times processDirectoryFiles has run
    analyzeDisabled,    \* loader: the disabled property of the analyze button
    fileStatus, \* loader: the class of each status indicator ("found", "missing")
    loaded,     \* loader: the file types loaded and parsed since the file table was reset
    tooltip,    \* tooltips: the element with id active-tooltip (Null: not in the document)
    tooltipHideTimeout, \* tooltips: this.tooltipHideTimeout
    timers,     \* tooltips: the timeouts that are set and have neither fired nor been cleared
    timerCount, \* tooltips: how many timeouts have been set
    nodeCount,  \* tooltips: how many tooltip elements have been created
    pointer     \* tooltips: what the pointer is over ("element", "tooltip", "outside")

decVars == <<dBytes, dN, dSrc, dType, dOp, dOut>>

typVars == <<aCore, aA, aB, aOut, tIdent, tOut, tAlt, tRaw>>

aggVars == <<files, pc, transaction, viewerTransaction, commandReturnTypes, eff>>

parVars == <<pType, pOut>>

loadVars == <<readers, selection, analyzeDisabled, fileStatus, loaded>>

tipVars == <<tooltip, tooltipHideTimeout, timers, timerCount, nodeCount, pointer>>

restVars == <<supplied, parVars, loadVars, tipVars>>

vars == <<decVars, typVars, aggVars, restVars>>

Null == [null |-> TRUE]

Has(obj, key) == key \in DOMAIN obj

IsString(v) == DOMAIN v = {"str"}

Min(a, b) == IF a < b THEN a ELSE b

\* the object obj with the property key set to value
With(obj, key, value) ==
    [k \in DOMAIN obj \cup {key} |-> IF k = key THEN value ELSE obj[k]]

\* the values of the variables of a part of the viewer that is not exercised
IdleDecoder ==
    /\ dBytes = <<>>
    /\ dN = <<>>
    /\ dSrc = "idle"
    /\ dType = Null
    /\ dOp = "idle"
    /\ dOut = Null

IdleAddresses ==
    /\ aCore = <<>>
    /\ aA = <<>>
    /\ aB = <<>>
    /\ aOut = Null

IdleTypes ==
    /\ tIdent = Null
    /\ tOut = Null
    /\ tAlt = Null
    /\ tRaw = Null

IdleViewer ==
    /\ files = Null
    /\ pc = "idle"
    /\ transaction = Null
    /\ viewerTransaction = Null
    /\ commandReturnTypes = Null
    /\ eff = Null

IdleParser ==
    /\ pType = Null
    /\ pOut = Null

IdleLoader ==
    /\ readers = {}
    /\ selection = 0
    /\ analyzeDisabled = TRUE
    /\ fileStatus = Null
    /\ loaded = {}

IdleTooltip ==
    /\ tooltip = Null
    /\ tooltipHideTimeout = Null
    /\ timers = {}
    /\ timerCount = 0
    /\ nodeCount = 0
    /\ pointer = "outside"

IdlePage ==
    /\ IdleLoader
    /\ IdleTooltip

IdleRest ==
    /\ supplied = Null
    /\ IdleParser
    /\ IdlePage

(***************************************************************************)
(* Magnitudes: arbitrary-precision naturals (the model of BigInt).         *)
(***************************************************************************)
\* value evaluated, then rest: a loop's accumulator is computed in each iteration, not
\* when the loop has ended
Step(value, rest) == IF value = value THEN rest ELSE rest

\* the digits of m without the zeros at its high end
Trim(m) ==
    LET nonzero == {i \in 1..Len(m) : m[i] # 0}
    IN  IF nonzero = {} THEN <<>>
        ELSE SubSeq(m, 1, CHOOSE i \in nonzero : \A j \in nonzero : j <= i)

RECURSIVE MagOfNat(_)
MagOfNat(x) ==
    IF x = 0 THEN <<>> ELSE <<x % 256>> \o MagOfNat(x \div 256)

Digit(m, i) == IF i <= Len(m) THEN m[i] ELSE 0

\* the carry into digit i of a + b: a lower digit overflows, and every digit between
\* passes the carry on
Carry(a, b, i) ==
    IF \E j \in 1..(i - 1) :
            /\ Digit(a, j) + Digit(b, j) >= 256
            /\ \A k \in (j + 1)..(i - 1) : Digit(a, k) + Digit(b, k) = 255
    THEN 1 ELSE 0

\* a + b on BigInts
BigAdd(a, b) ==
    LET n == (IF Len(a) > Len(b) THEN Len(a) ELSE Len(b)) + 1
    IN  Trim([i \in 1..n |-> (Digit(a, i) + Digit(b, i) + Carry(a, b, i)) % 256])

\* a << (8n * k) on BigInts
BigShlBytes(a, k) ==
    IF a = <<>> THEN <<>> ELSE [i \in 1..(Len(a) + k) |-> IF i <= k THEN 0 ELSE a[i - k]]

\* BigInt(b) for a byte b
BigOfByte(b) == MagOfNat(b)

(***************************************************************************)
(* int32: what JavaScript's |, << and >>> compute on.                      *)
(***************************************************************************)
\* the low 31 bits of the two's-complement pattern of the int32 x
Low31(x) == IF x < 0 THEN (x + 2147483647) + 1 ELSE x

\* byte j (0..3) of the two's-complement pattern of the int32 x
ByteOf(x, j) ==
    IF j = 3 THEN (Low31(x) \div 16777216) + (IF x < 0 THEN 128 ELSE 0)
    ELSE (Low31(x) \div (256 ^ j)) % 256

\* the int32 with the pattern bytes b0 (low) .. b3 (high)
Int32OfBytes(b0, b1, b2, b3) ==
    (IF b3 >= 128 THEN (b3 - 256) * 16777216 ELSE b3 * 16777216)
    + b2 * 65536 + b1 * 256 + b0

\* bit k (a power of two) of a | b on bytes
OrBit(a, b, k) ==
    IF (a \div k) % 2 = 1 \/ (b \div k) % 2 = 1 THEN k ELSE 0

OrByte(a, b) ==
    OrBit(a, b, 1) + OrBit(a, b, 2) + OrBit(a, b, 4) + OrBit(a, b, 8)
    + OrBit(a, b, 16) + OrBit(a, b, 32) + OrBit(a, b, 64) + OrBit(a, b, 128)

\* a | b
Or32(a, b) ==
    Int32OfBytes(OrByte(ByteOf(a, 0), ByteOf(b, 0)), OrByte(ByteOf(a, 1), ByteOf(b, 1)),
                 OrByte(ByteOf(a, 2), ByteOf(b, 2)), OrByte(ByteOf(a, 3), ByteOf(b, 3)))

\* v << s: the shift count is taken modulo 32; the bits shifted past bit 31 are
\* lost and bit 31 is the sign
Shl32(v, s) ==
    LET sh == s % 32
    IN  IF sh = 0 THEN v
        ELSE LET half == 2 ^ (31 - sh)
                 kept == IF sh = 1 THEN Low31(v) ELSE Low31(v) % (2 * half)
             IN  IF kept >= half
                 THEN (((kept - half) - half) * (2 ^ (sh - 1))) * 2
                 ELSE (kept * (2 ^ (sh - 1))) * 2

\* the magnitude of the bit pattern of x read as unsigned (x >>> 0)
Uint32Mag(x) == Trim(<<ByteOf(x, 0), ByteOf(x, 1), ByteOf(x, 2), ByteOf(x, 3)>>)

\* the Number x >>> 0
Uint32(x) == [number |-> Uint32Mag(x), neg |-> FALSE]

\* the Number that is the int32 x
NumOfInt32(x) ==
    IF x >= 0 THEN [number |-> MagOfNat(x), neg |-> FALSE]
    ELSE [number |-> BigAdd(MagOfNat(-(x + 1)), <<1>>), neg |-> TRUE]

(***************************************************************************)
(* Hex strings.                                                            *)
(***************************************************************************)
HexDigits ==
    <<"0", "1", "2", "3", "4", "5", "6", "7", "8", "9", "a", "b", "c", "d", "e", "f">>

\* b.toString(16).padStart(2, '0')
ByteHex(b) == <<HexDigits[(b \div 16) + 1], HexDigits[(b % 16) + 1]>>

\* bytes.map(b => b.toString(16).padStart(2, '0')).join('')
HexOf(bytes) ==
    [i \in 1..(2 * Len(bytes)) |-> ByteHex(bytes[(i + 1) \div 2])[2 - (i % 2)]]

(***************************************************************************)
(* ByteDecoder: TransactionViewer.convert* and readUleb128.                *)
(***************************************************************************)
\* the loop of bytesToU64 / convertU128 / convertU256:
\*   for (i = from; i < n; i++) result += BigInt(bytes[i]) << (BigInt(i) * 8n)
\* (the iterations i..n-1 are those of i..mid-1 followed by those of mid..n-1)
RECURSIVE BigIntLoop(_, _, _, _)
BigIntLoop(bytes, i, n, result) ==
    IF i >= n THEN result
    ELSE IF n - i = 1 THEN BigAdd(result, BigShlBytes(BigOfByte(bytes[i + 1]), i))
    ELSE LET mid == (i + n) \div 2
             low == BigIntLoop(bytes, i, mid, result)
         IN  Step(low, BigIntLoop(bytes, mid, n, low))

bytesToU64(bytes) == [bigint |-> BigIntLoop(bytes, 0, Min(8, Len(bytes)), <<>>)]

convertBool(bytes) ==
    IF Len(bytes) < 1 THEN Null ELSE [bool |-> bytes[1] # 0]

convertU8(bytes) ==
    IF Len(bytes) < 1 THEN Null ELSE [number |-> MagOfNat(bytes[1]), neg |-> FALSE]

convertU16(bytes) ==
    IF Len(bytes) < 2 THEN Null
    ELSE NumOfInt32(Or32(bytes[1], Shl32(bytes[2], 8)))

\* bytes[0] | (bytes[1] << 8) | (bytes[2] << 16) | (bytes[3] << 24)
Or4Bytes(bytes) ==
    LET low2 == Or32(bytes[1], Shl32(bytes[2], 8))
        low3 == Or32(low2, Shl32(bytes[3], 16))
    IN  Step(low2, Step(low3, Or32(low3, Shl32(bytes[4], 24))))

convertU32Signed(bytes) ==
    IF Len(bytes) < 4 THEN Null
    ELSE LET bits == Or4Bytes(bytes) IN Step(bits, NumOfInt32(bits))

convertU32(bytes) ==
    IF Len(bytes) < 4 THEN Null
    ELSE LET bits == Or4Bytes(bytes) IN Step(bits, Uint32(bits))

convertU64(bytes) ==
    IF Len(bytes) < 8 THEN Null ELSE bytesToU64(bytes)

convertU128(bytes) ==
    IF Len(bytes) < 16 THEN Null ELSE [bigint |-> BigIntLoop(bytes, 0, 16, <<>>)]

convertU256(bytes) ==
    IF Len(bytes) < 32 THEN Null ELSE [bigint |-> BigIntLoop(bytes, 0, 32, <<>>)]

convertAddress(bytes) ==
    IF Len(bytes) < 32 THEN Null ELSE [str |-> <<"0", "x">> \o HexOf(bytes)]

\* result after the iterations of readUleb128's loop at the positions from..to-1, each
\*   result |= (byte & 0x7F) << shift; shift += 7
\* (the iterations from..to-1 are those of from..mid-1 followed by those of mid..to-1);
\* result is an int32 (|= and <<)
RECURSIVE Uleb128Bits(_, _, _, _, _)
Uleb128Bits(bytes, from, to, result, shift) ==
    IF from >= to THEN result
    ELSE IF to - from = 1 THEN Or32(result, Shl32(bytes[from + 1] % 128, shift))
    ELSE LET mid == (from + to) \div 2
             low == Uleb128Bits(bytes, from, mid, result, shift)
         IN  Step(low, Uleb128Bits(bytes, mid, to, low, shift + 7 * (mid - from)))

\* the do-while loop of readUleb128: it runs up to the first byte without the
\* continuation bit, and returns null when position reaches bytes.length before
Uleb128Loop(bytes, offset, position, result, shift) ==
    LET ends == {p \in position..(Len(bytes) - 1) : bytes[p + 1] < 128}
    IN  IF ends = {} THEN Null
        ELSE LET last == CHOOSE p \in ends : \A q \in ends : p <= q
             IN  [value |-> Uleb128Bits(bytes, position, last + 1, result, shift),
                  bytesRead |-> (last + 1) - offset]

readUleb128(bytes, offset) == Uleb128Loop(bytes, offset, offset, 0, 0)

\* String.prototype.toLowerCase on the type names the decoder is handed
toLowerCase(s) ==
    CASE s = "Bool" -> "bool"
      [] s = "U8" -> "u8"
      [] s = "U16" -> "u16"
      [] s = "U32" -> "u32"
      [] s = "U64" -> "u64"
      [] s = "U128" -> "u128"
      [] s = "U256" -> "u256"
      [] s = "Address" -> "address"
      [] s = "Signer" -> "signer"
      [] OTHER -> s

\* the switch of convertVector: the size of one element, 0 for an unsupported type
elementSizeOf(elementType) ==
    LET t == toLowerCase(elementType)
    IN  CASE t = "u8" -> 1
          [] t = "u16" -> 2
          [] t = "u32" -> 4
          [] t = "u64" -> 8
          [] t = "u128" -> 16
          [] t = "u256" -> 32
          [] t = "address" -> 32
          [] t = "bool" -> 1
          [] OTHER -> 0

\* the switch of convertVector: the converter of one element
elementConverter(elementType, b) ==
    LET t == toLowerCase(elementType)
    IN  CASE t = "u8" -> convertU8(b)
          [] t = "u16" -> convertU16(b)
          [] t = "u32" -> convertU32(b)
          [] t = "u64" -> convertU64(b)
          [] t = "u128" -> convertU128(b)
          [] t = "u256" -> convertU256(b)
          [] t = "address" -> convertAddress(b)
          [] t = "bool" -> convertBool(b)
          [] OTHER -> Null

\* the for loop of convertVector: for (i = 0; i < length; i++) ...; iteration k reads
\* the element at offset + (k - i) * elementSize, and the loop returns null in the first
\* iteration whose element passes the end of the buffer or converts to null (such an
\* iteration is among the first Len(bytes) + 1, elementSize being at least 1)
VectorLoop(bytes, elementType, length, i, offset, elements) ==
    LET elementSize == elementSizeOf(elementType)
        at(k)    == offset + (k - i) * elementSize
        value(k) == elementConverter(elementType,
                                     SubSeq(bytes, at(k) + 1, at(k) + elementSize))
        nulls    == {k \in i..Min(length - 1, i + Len(bytes)) :
                        at(k) + elementSize > Len(bytes) \/ value(k) = Null}
    IN  IF ~(i < length) THEN [arr |-> elements]
        ELSE IF nulls # {} THEN Null
        ELSE [arr |-> elements \o [k \in 1..(length - i) |-> value(i + k - 1)]]

convertVector(bytes, elementType) ==
    LET lengthResult == readUleb128(bytes, 0)
    IN  IF lengthResult = Null THEN Null
        ELSE IF elementSizeOf(elementType) = 0 THEN Null
        ELSE VectorLoop(bytes, elementType, lengthResult.value, 0,
                        lengthResult.bytesRead, <<>>)

convertPrimitiveType(bytes, typeName) ==
    LET t == toLowerCase(typeName)
    IN  CASE t = "bool" -> convertBool(bytes)
          [] t = "u8" -> convertU8(bytes)
          [] t = "u16" -> convertU16(bytes)
          [] t = "u32" -> convertU32(bytes)
          [] t = "u64" -> convertU64(bytes)
          [] t = "u128" -> convertU128(bytes)
          [] t = "u256" -> convertU256(bytes)
          [] t = "address" -> convertAddress(bytes)
          [] OTHER -> Null

\* the keys extractElementType and convertPureValue look for, in the code's order
HasAny(obj, keys) == \E k \in keys : Has(obj, k)

extractElementType(elementTypeInput) ==
    IF IsString(elementTypeInput) THEN elementTypeInput
    ELSE IF elementTypeInput = Null THEN Null
    ELSE IF HasAny(elementTypeInput, {"u8", "U8"}) THEN [str |-> "u8"]
    ELSE IF HasAny(elementTypeInput, {"u16", "U16"}) THEN [str |-> "u16"]
    ELSE IF HasAny(elementTypeInput, {"u32", "U32"}) THEN [str |-> "u32"]
    ELSE IF HasAny(elementTypeInput, {"u64", "U64"}) THEN [str |-> "u64"]
    ELSE IF HasAny(elementTypeInput, {"u128", "U128"}) THEN [str |-> "u128"]
    ELSE IF HasAny(elementTypeInput, {"u256", "U256"}) THEN [str |-> "u256"]
    ELSE IF HasAny(elementTypeInput, {"bool", "Bool"}) THEN [str |-> "bool"]
    ELSE IF HasAny(elementTypeInput, {"address", "Address"}) THEN [str |-> "address"]
    ELSE Null

(***************************************************************************)
(* Addresses are sequences of one-character strings.                       *)
(***************************************************************************)
startsWith0x(address) ==
    Len(address) >= 2 /\ address[1] = "0" /\ address[2] = "x"

\* addr.replace(/^0+/, '')
RECURSIVE stripLeadingZeros(_)
stripLeadingZeros(addr) ==
    IF addr # <<>> /\ Head(addr) = "0" THEN stripLeadingZeros(Tail(addr)) ELSE addr

normalizeAddressNoDefault(address) ==
    LET addr == IF startsWith0x(address) THEN SubSeq(address, 3, Len(address))
                ELSE address
    IN  <<"0", "x">> \o stripLeadingZeros(addr)

normalizeAddress(address) ==
    LET addr  == IF startsWith0x(address) THEN SubSeq(address, 3, Len(address))
                 ELSE address
        addr2 == IF stripLeadingZeros(addr) = <<>> THEN <<"0">>
                 ELSE stripLeadingZeros(addr)
    IN  <<"0", "x">> \o addr2

\* [address, module, name, _] = typeInput.Datatype, or
\* [[address, module, name, _], typeArgs] = typeInput.DatatypeInstantiation
isOptionType(typeInput) ==
    IF Has(typeInput, "Datatype")
    THEN LET d == typeInput.Datatype
         IN  normalizeAddress(d[1]) = <<"0", "x", "1">>
             /\ d[2] = "option" /\ d[3] = "Option"
    ELSE IF Has(typeInput, "DatatypeInstantiation")
    THEN LET d == typeInput.DatatypeInstantiation[1]
         IN  normalizeAddress(d[1]) = <<"0", "x", "1">>
             /\ d[2] = "option" /\ d[3] = "Option"
    ELSE FALSE

\* the inner type convertOption extracts (Null when there is none)
optionInnerType(typeInput) ==
    IF Has(typeInput, "DatatypeInstantiation")
    THEN LET di == typeInput.DatatypeInstantiation
         IN  IF Len(di) >= 2 /\ Len(di[2]) > 0 THEN di[2][1] ELSE Null
    ELSE IF Has(typeInput, "Datatype")
    THEN LET dt == typeInput.Datatype
         IN  IF Len(dt) >= 4 /\ Len(dt[4]) > 0 THEN dt[4][1] ELSE Null
    ELSE Null

StrNone == [str |-> "None"]

StrInvalidOption == [str |-> "Invalid Option"]

\* `Some(0x${hex})`
SomeHex(innerBytes) == [some |-> [hex |-> HexOf(innerBytes)]]

\* `Some(${innerValue})`
SomeOf(innerValue) == [some |-> innerValue]

RECURSIVE convertPureValue(_, _)
RECURSIVE convertOption(_, _)
RECURSIVE convertOptionWhole(_, _)

\* a decoder that hands the whole buffer, discriminant included, to the inner type
convertOptionWhole(bytes, typeInput) ==
    IF Len(bytes) = 0 THEN StrNone
    ELSE IF bytes[1] = 0 THEN StrNone
    ELSE IF bytes[1] = 1
    THEN LET innerType == optionInnerType(typeInput)
         IN  IF innerType = Null THEN SomeHex(Tail(bytes))
             ELSE LET innerValue == convertPureValue(bytes, innerType)
                  IN  IF innerValue # Null THEN SomeOf(innerValue)
                      ELSE SomeHex(Tail(bytes))
    ELSE StrInvalidOption

convertOption(bytes, typeInput) ==
    IF Len(bytes) = 0 THEN StrNone
    ELSE LET discriminant == bytes[1]
         IN  IF discriminant = 0 THEN StrNone
             ELSE IF discriminant = 1
             THEN LET innerType  == optionInnerType(typeInput)
                      innerBytes == Tail(bytes)
                  IN  IF innerType = Null THEN SomeHex(innerBytes)
                      ELSE LET innerValue == convertPureValue(innerBytes, innerType)
                           IN  IF innerValue # Null THEN SomeOf(innerValue)
                               ELSE SomeHex(innerBytes)
             ELSE StrInvalidOption

convertPureValue(bytes, typeInput) ==
    IF Len(bytes) = 0 THEN Null
    ELSE IF IsString(typeInput) THEN convertPrimitiveType(bytes, typeInput.str)
    ELSE IF typeInput = Null THEN Null
    ELSE IF isOptionType(typeInput) THEN convertOption(bytes, typeInput)
    ELSE LET elementType ==
                 IF Has(typeInput, "vector") THEN extractElementType(typeInput.vector)
                 ELSE IF Has(typeInput, "Vector") THEN extractElementType(typeInput.Vector)
                 ELSE Null
         IN  IF elementType # Null THEN convertVector(bytes, elementType.str)
             ELSE IF HasAny(typeInput, {"bool", "Bool"}) THEN convertBool(bytes)
             ELSE IF HasAny(typeInput, {"u8", "U8"}) THEN convertU8(bytes)
             ELSE IF HasAny(typeInput, {"u16", "U16"}) THEN convertU16(bytes)
             ELSE IF HasAny(typeInput, {"u32", "U32"}) THEN convertU32(bytes)
             ELSE IF HasAny(typeInput, {"u64", "U64"}) THEN convertU64(bytes)
             ELSE IF HasAny(typeInput, {"u128", "U128"}) THEN convertU128(bytes)
             ELSE IF HasAny(typeInput, {"u256", "U256"}) THEN convertU256(bytes)
             ELSE IF HasAny(typeInput, {"address", "Address"}) THEN convertAddress(bytes)
             ELSE Null

\* num.toString() with underscores between groups of three digits; the decimal
\* digits are not spelled out, the text is named by the number it is the text of
formatUnsignedInteger(num) == [formatUnsignedInteger |-> num]

\* value.toString(), named by the value it is the text of
toString(value) == IF IsString(value) THEN value ELSE [toString |-> value]

formatPureValue(value, typeName) ==
    IF value = Null THEN Null
    ELSE IF Has(value, "arr")
    THEN [list |-> [i \in DOMAIN value.arr |->
                      LET elem == value.arr[i]
                      IN  IF Has(elem, "bigint") THEN formatUnsignedInteger(elem)
                          ELSE IF IsString(elem) /\ startsWith0x(elem.str) THEN elem
                          ELSE toString(elem)]]
    ELSE LET typeNameStr ==
                 IF IsString(typeName) THEN typeName.str
                 ELSE IF Has(typeName, "Bool") THEN "bool"
                 ELSE IF Has(typeName, "U8") THEN "u8"
                 ELSE IF Has(typeName, "U16") THEN "u16"
                 ELSE IF Has(typeName, "U32") THEN "u32"
                 ELSE IF Has(typeName, "U64") THEN "u64"
                 ELSE IF Has(typeName, "U128") THEN "u128"
                 ELSE IF Has(typeName, "U256") THEN "u256"
                 ELSE IF Has(typeName, "Address") THEN "address"
                 ELSE "complex"
         IN  IF typeNameStr = "complex" THEN toString(value)
             ELSE IF toLowerCase(typeNameStr) \in {"u8", "u16", "u32", "u64", "u128", "u256"}
             THEN formatUnsignedInteger(value)
             ELSE IF toLowerCase(typeNameStr) = "address" THEN value
             ELSE toString(value)

\* contexts in which an amount is expected
AmountContexts == {"amount", "value", "balance"}

inferPureValueType(bytes, context) ==
    IF context \in AmountContexts /\ Len(bytes) = 8 THEN [str |-> "u64"]
    ELSE IF context \in AmountContexts /\ Len(bytes) = 16 THEN [str |-> "u128"]
    ELSE IF context \in AmountContexts /\ Len(bytes) = 32 THEN [str |-> "u256"]
    ELSE CASE Len(bytes) = 1 ->
                  IF bytes[1] = 0 \/ bytes[1] = 1 THEN [str |-> "bool"] ELSE [str |-> "u8"]
           [] Len(bytes) = 2 -> [str |-> "u16"]
           [] Len(bytes) = 4 -> [str |-> "u32"]
           [] Len(bytes) = 8 -> [str |-> "u64"]
           [] Len(bytes) = 16 -> [str |-> "u128"]
           [] Len(bytes) = 32 ->
                  IF context = "address" THEN [str |-> "address"] ELSE [str |-> "u256"]
           [] OTHER -> Null

\* `0x${bytes.map(b => b.toString(16).padStart(2, '0')).join('')}`
fullHex(bytes) == [str |-> <<"0", "x">> \o HexOf(bytes)]

\* the pure-value span around the text (the part of a long text that moves into
\* the tooltip is markup and is not distinguished)
truncatePureValue(value) == [span |-> "pure-value", text |-> value]

\* a formatPureInput that consults the length table when the explicit type fails
formatPureInputReinfers(bytes, context, explicitType, forceHex) ==
    IF forceHex THEN truncatePureValue(fullHex(bytes))
    ELSE LET first == IF explicitType # Null /\ convertPureValue(bytes, explicitType) # Null
                      THEN explicitType
                      ELSE inferPureValueType(bytes, context)
         IN  IF first = Null THEN truncatePureValue(fullHex(bytes))
             ELSE IF convertPureValue(bytes, first) = Null
             THEN truncatePureValue(fullHex(bytes))
             ELSE truncatePureValue(formatPureValue(convertPureValue(bytes, first), first))

formatPureInput(bytes, context, explicitType, forceHex) ==
    IF forceHex THEN truncatePureValue(fullHex(bytes))
    ELSE LET inferredType == IF explicitType # Null THEN explicitType
                             ELSE inferPureValueType(bytes, context)
         IN  IF inferredType = Null THEN truncatePureValue(fullHex(bytes))
             ELSE LET convertedValue == convertPureValue(bytes, inferredType)
                  IN  IF convertedValue = Null THEN truncatePureValue(fullHex(bytes))
                      ELSE truncatePureValue(formatPureValue(convertedValue, inferredType))

(***************************************************************************)
(* MoveType and MoveType.fromTypeStructure.  A rendered string is a        *)
(* sequence of tokens: the characters of an address, and one token for a   *)
(* module name, a type name or a piece of punctuation.                     *)
(***************************************************************************)
\* new MoveType(packageAddr, module, name, typeArgs, isPrimitive)
MoveType(packageAddr, module, name, typeArgs, isPrimitive) ==
    [package |-> packageAddr, module |-> module, name |-> name,
     typeArgs |-> typeArgs, isPrimitive |-> isPrimitive]

\* the table `primitives` of fromTypeStructure
primitives ==
    [Bool |-> "bool", U8 |-> "u8", U16 |-> "u16", U32 |-> "u32", U64 |-> "u64",
     U128 |-> "u128", U256 |-> "u256", Address |-> "address", Signer |-> "signer"]

\* packageAddr.startsWith('0x') ? packageAddr.slice(2) : packageAddr
normalizedPkg(packageAddr) ==
    IF startsWith0x(packageAddr) THEN SubSeq(packageAddr, 3, Len(packageAddr))
    ELSE packageAddr

\* the branch of fromTypeStructure for the cache format that keeps the address as given
cacheObjectTypeKeepsPrefix(typeObj, parsedTypeArgs) ==
    MoveType([str |-> typeObj.address], [str |-> typeObj.module], [str |-> typeObj.name],
             parsedTypeArgs, FALSE)

\* the branch of fromTypeStructure for {address, module, name, type_args}, the type
\* arguments already parsed
cacheObjectType(typeObj, parsedTypeArgs) ==
    MoveType([str |-> normalizedPkg(typeObj.address)], [str |-> typeObj.module],
             [str |-> typeObj.name], parsedTypeArgs, FALSE)

\* the explicit fallback value
UnknownType == MoveType(Null, [str |-> "unknown"], [str |-> "unknown"], <<>>, FALSE)

\* the TypeError raised by a call on undefined (undefined.startsWith,
\* undefined.map) or by destructuring undefined
TypeError == [throws |-> "TypeError"]

\* the value of a property or of an array element that is not there
Undefined == [undefined |-> TRUE]

\* obj[key] where the code expects a string
StrOf(obj, key) == IF Has(obj, key) THEN [str |-> obj[key]] ELSE Undefined

\* obj[key] is there and is not null
Present(obj, key) == Has(obj, key) /\ obj[key] # Null

Throws(parsedTypeArgs) == \E i \in DOMAIN parsedTypeArgs : parsedTypeArgs[i] = TypeError

\* the struct branches: d holds the address, the module and the name under the keys
\* ka, km, kn (property names or array positions)
structOf(d, ka, km, kn, parsedTypeArgs) ==
    IF ~Has(d, ka) THEN TypeError
    ELSE IF Throws(parsedTypeArgs) THEN TypeError
    ELSE MoveType([str |-> normalizedPkg(d[ka])], StrOf(d, km), StrOf(d, kn),
                  parsedTypeArgs, FALSE)

RECURSIVE fromTypeStructure(_)
fromTypeStructure(typeObj) ==
    IF IsString(typeObj)
    THEN IF typeObj.str \in DOMAIN primitives
         THEN MoveType(Null, Null, [str |-> primitives[typeObj.str]], <<>>, TRUE)
         ELSE UnknownType
    ELSE IF typeObj = Null THEN UnknownType
    ELSE IF DOMAIN typeObj \cap DOMAIN primitives # {}
    THEN LET key == CHOOSE k \in DOMAIN typeObj \cap DOMAIN primitives : TRUE
         IN  MoveType(Null, Null, [str |-> primitives[key]], <<>>, TRUE)
    ELSE IF Present(typeObj, "Vector")
    THEN LET innerType == fromTypeStructure(typeObj.Vector)
         IN  IF innerType = TypeError THEN TypeError
             ELSE MoveType(Null, [str |-> "vector"], [str |-> "vector"], <<innerType>>, TRUE)
    ELSE IF Present(typeObj, "Reference")
    THEN LET innerType == fromTypeStructure(typeObj.Reference)
         IN  IF innerType = TypeError THEN TypeError
             ELSE With(innerType, "_isReference", TRUE)
    ELSE IF Present(typeObj, "MutableReference")
    THEN LET innerType == fromTypeStructure(typeObj.MutableReference)
         IN  IF innerType = TypeError THEN TypeError
             ELSE With(innerType, "_isMutableReference", TRUE)
    ELSE IF Present(typeObj, "struct")
    THEN LET st == typeObj.struct
         IN  structOf(st, "address", "module", "name",
                      IF Has(st, "type_args") /\ Len(st.type_args) > 0
                      THEN [i \in 1..Len(st.type_args) |-> fromTypeStructure(st.type_args[i])]
                      ELSE <<>>)
    ELSE IF Has(typeObj, "Struct")
    THEN IF Len(typeObj.Struct) = 0 THEN TypeError
         ELSE structOf(typeObj.Struct[1], 1, 2, 3, <<>>)
    ELSE IF Has(typeObj, "DatatypeInstantiation")
    THEN LET di == typeObj.DatatypeInstantiation
         IN  IF Len(di) = 0 THEN TypeError
             ELSE IF Len(di) = 1 THEN TypeError
             ELSE structOf(di[1], 1, 2, 3,
                           [i \in 1..Len(di[2]) |-> fromTypeStructure(di[2][i])])
    ELSE IF Has(typeObj, "Datatype")
    THEN structOf(typeObj.Datatype, 1, 2, 3, <<>>)
    ELSE IF /\ Has(typeObj, "address") /\ typeObj.address # <<>>
            /\ Has(typeObj, "module") /\ typeObj.module # ""
            /\ Has(typeObj, "name") /\ typeObj.name # ""
    THEN LET type_args == IF Has(typeObj, "type_args") THEN typeObj.type_args ELSE <<>>
             parsedTypeArgs == [i \in 1..Len(type_args) |-> fromTypeStructure(type_args[i])]
         IN  IF Throws(parsedTypeArgs) THEN TypeError
             ELSE cacheObjectType(typeObj, parsedTypeArgs)
    ELSE UnknownType

\* parts.join(sep) on token sequences
RECURSIVE Join(_, _)
Join(parts, sep) ==
    IF parts = <<>> THEN <<>>
    ELSE IF Len(parts) = 1 THEN parts[1]
    ELSE parts[1] \o sep \o Join(Tail(parts), sep)

\* address.startsWith('0x') ? address : `0x${address}`
withPrefix(address) == IF startsWith0x(address) THEN address ELSE <<"0", "x">> \o address

RECURSIVE toFullyQualifiedString(_)
toFullyQualifiedString(type) ==
    LET args == IF Len(type.typeArgs) > 0
                THEN <<"<">> \o Join([i \in 1..Len(type.typeArgs) |->
                                         toFullyQualifiedString(type.typeArgs[i])], <<", ">>)
                     \o <<">">>
                ELSE <<>>
    IN  IF type.isPrimitive THEN <<type.name.str>> \o args
        ELSE IF type.package = Null \/ type.package.str = <<>>
        THEN <<type.module.str, "::", type.name.str>> \o args
        ELSE withPrefix(type.package.str) \o <<"::", type.module.str, "::", type.name.str>>
             \o args

(***************************************************************************)
(* The decoder's inputs and operations.                                    *)
(***************************************************************************)
\* buffers of up to MaxShort bytes, and of the widths of the fixed-width types
\* and one byte more
MaxShort == 6

\* numbers of up to MaxNatLen base-256 digits (ULEB128 encodings of MaxNatLen + 1 bytes)
MaxNatLen == 5

ByteVals == {0, 1, 2, 8, 128, 255}

\* the buffer first, fill, ..., fill, last
Pattern(len, first, fill, last) ==
    [i \in 1..len |-> IF i = 1 THEN first ELSE IF i = len THEN last ELSE fill]

\* short buffers of every pattern; long ones (the widths of u64, u128, u256 and
\* one byte more) filled with 0 or 255
ByteSeqs ==
    { Pattern(len, a, b, c) : len \in 0..MaxShort, a \in ByteVals, b \in ByteVals,
                              c \in ByteVals }
    \cup { Pattern(len, a, b, c) : len \in {8, 9, 16, 17, 32, 33}, a \in ByteVals,
                                   b \in {0, 255}, c \in {0, 1, 128, 255} }

BigNats ==
    { Trim(Pattern(len, a, b, c)) : len \in 0..MaxNatLen, a \in ByteVals,
                                    b \in ByteVals, c \in ByteVals }

\* n mod 128 and n div 128 on magnitudes
Mod128(n) == IF n = <<>> THEN 0 ELSE n[1] % 128

RECURSIVE DivFrom(_, _, _)
DivFrom(n, i, rem) ==
    IF i = 0 THEN <<>>
    ELSE LET cur == rem * 256 + n[i]
         IN  DivFrom(n, i - 1, cur % 128) \o <<cur \div 128>>

Div128(n) == Trim(DivFrom(n, Len(n), 0))

\* the canonical ULEB128 encoding of the magnitude n: seven low bits per byte,
\* the high bit set on every byte but the last
RECURSIVE Uleb128Encode(_)
Uleb128Encode(n) ==
    IF Div128(n) = <<>> THEN <<Mod128(n)>>
    ELSE <<Mod128(n) + 128>> \o Uleb128Encode(Div128(n))

PrimNames == {"Bool", "U8", "U16", "U32", "U64", "U128", "U256", "Address", "u64", "Signer"}

ElemNames == {"bool", "u8", "U8", "u16", "u32", "U64", "u128", "u256", "address", "signer"}

OptionAddrs == { <<"0", "x", "1">>, <<"1">>, <<"0", "x", "0", "0", "0", "1">> }

\* {DatatypeInstantiation: [[address, "option", "Option", []], typeArgs]}
OptionInst(address, typeArgs) ==
    [DatatypeInstantiation |-> <<<<address, "option", "Option", <<>>>>, typeArgs>>]

\* {Datatype: [address, module, name, []]}
DatatypeOf(address, module, name) == [Datatype |-> <<address, module, name, <<>>>>]

InnerTypes ==
    { [str |-> p] : p \in PrimNames }
    \cup { [Vector |-> [str |-> "U8"]], [vector |-> [str |-> "u16"]], [Vector |-> [U64 |-> Null]],
           [U32 |-> Null],
           OptionInst(<<"0", "x", "1">>, <<[str |-> "U8"]>>),
           DatatypeOf(<<"0", "x", "2">>, "coin", "Coin") }

OptionTypes ==
    { OptionInst(<<"0", "x", "1">>, <<t>>) : t \in InnerTypes }
    \cup { OptionInst(a, <<[str |-> "U8"]>>) : a \in OptionAddrs }
    \cup { OptionInst(<<"0", "x", "1">>, <<>>),
           DatatypeOf(<<"0", "x", "1">>, "option", "Option") }

TypeInputs ==
    { [str |-> "U64"], [Vector |-> [str |-> "U8"]], [vector |-> [str |-> "u16"]],
      [Vector |-> [U64 |-> Null]], [U32 |-> Null], [Vector |-> [str |-> "Signer"]],
      OptionInst(<<"0", "x", "0", "0", "0", "1">>, <<[str |-> "U8"]>>),
      OptionInst(<<"0", "x", "2">>, <<[str |-> "U8"]>>),
      DatatypeOf(<<"0", "x", "2">>, "coin", "Coin"), Null }

InitDecoder ==
    /\ \/ dSrc = "raw" /\ dBytes \in ByteSeqs /\ dN = <<>>
       \/ dSrc = "uleb" /\ dN \in BigNats /\ dBytes = Uleb128Encode(dN)
    /\ dType = Null
    /\ dOp = "none"
    /\ dOut = Null
    /\ IdleAddresses
    /\ IdleTypes
    /\ IdleViewer
    /\ IdleRest

ReadUleb128 ==
    /\ dOp = "none"
    /\ dOp' = "readUleb128"
    /\ dOut' = readUleb128(dBytes, 0)
    /\ UNCHANGED <<dBytes, dN, dSrc, dType, typVars, aggVars, restVars>>

ConvertPrimitiveType ==
    /\ dOp = "none"
    /\ \E typeName \in PrimNames :
          /\ dType' = [str |-> typeName]
          /\ dOut' = convertPrimitiveType(dBytes, typeName)
    /\ dOp' = "convertPrimitiveType"
    /\ UNCHANGED <<dBytes, dN, dSrc, typVars, aggVars, restVars>>

ConvertVector ==
    /\ dOp = "none"
    /\ \E elementType \in ElemNames :
          /\ dType' = [str |-> elementType]
          /\ dOut' = convertVector(dBytes, elementType)
    /\ dOp' = "convertVector"
    /\ UNCHANGED <<dBytes, dN, dSrc, typVars, aggVars, restVars>>

ConvertOption ==
    /\ dOp = "none"
    /\ \E typeInput \in OptionTypes :
          /\ dType' = typeInput
          /\ dOut' = convertOption(dBytes, typeInput)
    /\ dOp' = "convertOption"
    /\ UNCHANGED <<dBytes, dN, dSrc, typVars, aggVars, restVars>>

ConvertPureValue ==
    /\ dOp = "none"
    /\ \E typeInput \in TypeInputs :
          /\ dType' = typeInput
          /\ dOut' = convertPureValue(dBytes, typeInput)
    /\ dOp' = "convertPureValue"
    /\ UNCHANGED <<dBytes, dN, dSrc, typVars, aggVars, restVars>>

\* the contexts the viewer passes to inferPureValueType and formatPureInput
Contexts == {"amount", "value", "balance", "general", "address"}

InferPureValueType ==
    /\ dOp = "none"
    /\ \E context \in Contexts :
          /\ dType' = [context |-> context]
          /\ dOut' = inferPureValueType(dBytes, context)
    /\ dOp' = "inferPureValueType"
    /\ UNCHANGED <<dBytes, dN, dSrc, typVars, aggVars, restVars>>

FormatPureInput ==
    /\ dOp = "none"
    /\ \E context \in {"amount", "general", "address"}, explicitType \in TypeInputs,
          forceHex \in BOOLEAN :
          /\ dType' = [context |-> context, explicitType |-> explicitType,
                       forceHex |-> forceHex]
          /\ dOut' = formatPureInput(dBytes, context, explicitType, forceHex)
    /\ dOp' = "formatPureInput"
    /\ UNCHANGED <<dBytes, dN, dSrc, typVars, aggVars, restVars>>

NextDecoder ==
    \/ ReadUleb128
    \/ ConvertPrimitiveType
    \/ ConvertVector
    \/ ConvertOption
    \/ ConvertPureValue
    \/ InferPureValueType
    \/ FormatPureInput

SpecDecoder == InitDecoder /\ [][NextDecoder]_vars

(***************************************************************************)
(* Address normalization and type normalization: inputs and operations.    *)
(***************************************************************************)
\* hex strings of up to MaxCore digits, spelled with up to MaxPad leading zeros
MaxCore == 3

MaxPad == 2

HexChars == {"0", "2", "a"}

\* the hex strings of exactly n digits
RECURSIVE HexStrings(_)
HexStrings(n) ==
    IF n = 0 THEN {<<>>}
    ELSE {<<c>> \o r : c \in HexChars, r \in HexStrings(n - 1)}

\* hex strings without a leading zero
Cores ==
    UNION {{h \in HexStrings(n) : n = 0 \/ h[1] # "0"} : n \in 0..MaxCore}

\* core written with pad leading zeros and, if asked, the 0x prefix
Spelling(core, pad, prefix) ==
    (IF prefix THEN <<"0", "x">> ELSE <<>>) \o [i \in 1..pad |-> "0"] \o core

Spellings(core) ==
    {Spelling(core, pad, prefix) : pad \in 0..MaxPad, prefix \in BOOLEAN}

NoAddressOut == [A |-> Null, B |-> Null, AA |-> Null]

InitAddresses ==
    /\ aCore \in Cores
    /\ aA \in Spellings(aCore)
    /\ aB \in Spellings(aCore)
    /\ aOut = NoAddressOut
    /\ IdleTypes

NormalizeA ==
    /\ aOut # Null
    /\ aOut.A = Null
    /\ aOut' = [aOut EXCEPT !.A = [str |-> normalizeAddress(aA)]]
    /\ UNCHANGED <<aCore, aA, aB, tIdent, tOut, tAlt, tRaw>>

NormalizeB ==
    /\ aOut # Null
    /\ aOut.B = Null
    /\ aOut' = [aOut EXCEPT !.B = [str |-> normalizeAddress(aB)]]
    /\ UNCHANGED <<aCore, aA, aB, tIdent, tOut, tAlt, tRaw>>

\* normalizeAddress applied to its own result
NormalizeAgain ==
    /\ aOut # Null
    /\ aOut.A # Null
    /\ aOut.AA = Null
    /\ aOut' = [aOut EXCEPT !.AA = [str |-> normalizeAddress(aOut.A.str)]]
    /\ UNCHANGED <<aCore, aA, aB, tIdent, tOut, tAlt, tRaw>>

TypeAddrs == {<<"0", "x", "2">>, <<"2">>, <<"0", "x", "0", "0", "a">>, <<"0", "x">>}

ModuleNames == {"coin", "m"}

TypeNames == {"Coin", "T"}

SuiStruct ==
    [struct |-> [address |-> <<"0", "x", "2">>, module |-> "sui", name |-> "SUI",
                 type_args |-> <<>>]]

TypeArgLists ==
    { <<>>,
      <<[str |-> "U64"]>>,
      <<SuiStruct>>,
      <<[Vector |-> [str |-> "U8"]], [str |-> "Foo"]>>,
      <<[Reference |-> OptionInst(<<"1">>, <<[U8 |-> Null]>>)]>>,
      <<[address |-> <<"2">>, module |-> "sui", name |-> "SUI"],
        [Struct |-> << <<<<"0", "x", "2">>, "sui", "SUI", <<>>>> >>]>> }

Idents ==
    [address : TypeAddrs, module : ModuleNames, name : TypeNames, type_args : TypeArgLists]

Encodings == {"struct", "DatatypeInstantiation", "cache", "Struct", "Datatype"}

\* the encoding e of the type identity id
Encode(e, id) ==
    CASE e = "struct" -> [struct |-> id]
      [] e = "DatatypeInstantiation" ->
            [DatatypeInstantiation |->
                <<<<id.address, id.module, id.name, <<>>>>, id.type_args>>]
      [] e = "cache" -> id
      [] e = "Struct" -> [Struct |-> << <<id.address, id.module, id.name, <<>>>> >>]
      [] e = "Datatype" -> [Datatype |-> <<id.address, id.module, id.name, <<>>>>]

NoTypeOut == [e \in Encodings |-> Null]

\* the spellings of the address that tIdent's address spells
AlternativeSpellings(address) ==
    Spellings(stripLeadingZeros(normalizedPkg(address))) \ {<<>>}

InitTypes ==
    /\ tIdent \in Idents
    /\ tOut = NoTypeOut
    /\ \E address \in AlternativeSpellings(tIdent.address) :
          tAlt = [address |-> address, out |-> NoTypeOut, str |-> NoTypeOut,
                  strIdent |-> NoTypeOut]
    /\ tRaw = Null
    /\ IdleAddresses

FromTypeStructure ==
    /\ tIdent # Null
    /\ \E e \in Encodings :
          /\ tOut[e] = Null
          /\ tOut' = [tOut EXCEPT ![e] = fromTypeStructure(Encode(e, tIdent))]
    /\ UNCHANGED <<aCore, aA, aB, aOut, tIdent, tAlt, tRaw>>

\* raw type JSON in one of the encodings the normalizer is specified for
WellFormedTypes ==
    { [str |-> "U64"], [str |-> "u64"], [U8 |-> Null],
      [Vector |-> [str |-> "U8"]], [vector |-> [str |-> "U8"]],
      [Reference |-> SuiStruct], [MutableReference |-> [str |-> "Bool"]],
      [TypeParameter |-> [num |-> 0]],
      SuiStruct,
      [struct |-> [address |-> <<"0", "x", "2">>, module |-> "sui", name |-> "SUI"]],
      [Struct |-> << <<<<"0", "x", "2">>, "sui", "SUI", <<>>>> >>],
      [Datatype |-> <<<<"0", "x", "2">>, "sui", "SUI", <<>>>>],
      [DatatypeInstantiation |-> <<<<<<"0", "x", "2">>, "coin", "Coin", <<>>>>, <<SuiStruct>>>>],
      [address |-> <<"0", "x", "2">>, module |-> "coin", name |-> "Coin",
       type_args |-> <<[vector |-> [str |-> "u8"]]>>] }

\* a known wrapper key with a missing or wrongly shaped payload
MalformedTypes ==
    { [struct |-> <<>>],
      [struct |-> [module |-> "sui", name |-> "SUI"]],
      [struct |-> [address |-> <<"0", "x", "2">>]],
      [Struct |-> <<>>],
      [Struct |-> << <<>> >>],
      [Datatype |-> <<>>],
      [Datatype |-> << <<"0", "x", "2">> >>],
      [DatatypeInstantiation |-> <<>>],
      [DatatypeInstantiation |-> << <<<<"0", "x", "2">>, "coin", "Coin", <<>>>> >>],
      [DatatypeInstantiation |-> <<<<<<"0", "x", "2">>, "coin", "Coin", <<>>>>,
                                   <<[struct |-> <<>>]>>>>],
      [Vector |-> [Datatype |-> <<>>]],
      [Vector |-> Null],
      [Reference |-> [struct |-> <<>>]],
      [address |-> <<"0", "x", "2">>, module |-> "coin", name |-> "Coin",
       type_args |-> <<[Struct |-> <<>>]>>] }

\* JSON values in none of the encodings
UnrecognizedTypes ==
    { Null, [num |-> 7], [bool |-> TRUE], [str |-> "Foo"], [str |-> ""],
      [Other |-> [str |-> "U8"]], [address |-> <<"0", "x", "2">>, module |-> "coin"] }

RawTypeClasses == {"well formed", "malformed", "unrecognized"}

RawTypes(class) ==
    CASE class = "well formed" -> WellFormedTypes
      [] class = "malformed" -> MalformedTypes
      [] class = "unrecognized" -> UnrecognizedTypes

InitRawTypes ==
    /\ \E class \in RawTypeClasses : \E input \in RawTypes(class) :
          tRaw = [input |-> input, class |-> class, out |-> Null]
    /\ tIdent = Null
    /\ tOut = Null
    /\ tAlt = Null
    /\ IdleAddresses

\* MoveType.fromTypeStructure(tRaw.input): the MoveType returned or the error thrown
FromRawType ==
    /\ tRaw # Null
    /\ tRaw.out = Null
    /\ tRaw' = [tRaw EXCEPT !.out = fromTypeStructure(tRaw.input)]
    /\ UNCHANGED <<aCore, aA, aB, aOut, tIdent, tOut, tAlt>>

\* fromTypeStructure of the encoding e of tIdent with its address in the spelling
\* tAlt.address, and toFullyQualifiedString of that type and of tOut[e]
FromAlternativeSpelling ==
    /\ tAlt # Null
    /\ \E e \in Encodings :
          /\ tOut[e] # Null
          /\ tAlt.out[e] = Null
          /\ LET type == fromTypeStructure(
                             Encode(e, [tIdent EXCEPT !.address = tAlt.address]))
             IN  tAlt' = [tAlt EXCEPT
                             !.out[e] = type,
                             !.str[e] = [str |-> toFullyQualifiedString(type)],
                             !.strIdent[e] = [str |-> toFullyQualifiedString(tOut[e])]]
    /\ UNCHANGED <<aCore, aA, aB, aOut, tIdent, tOut, tRaw>>

InitNormalizer ==
    /\ InitAddresses \/ InitTypes \/ InitRawTypes
    /\ IdleDecoder
    /\ IdleViewer
    /\ IdleRest

NextNormalizer ==
    \/ (NormalizeA /\ UNCHANGED <<decVars, aggVars, restVars>>)
    \/ (NormalizeB /\ UNCHANGED <<decVars, aggVars, restVars>>)
    \/ (NormalizeAgain /\ UNCHANGED <<decVars, aggVars, restVars>>)
    \/ (FromTypeStructure /\ UNCHANGED <<decVars, aggVars, restVars>>)
    \/ (FromAlternativeSpelling /\ UNCHANGED <<decVars, aggVars, restVars>>)
    \/ (FromRawType /\ UNCHANGED <<decVars, aggVars, restVars>>)

SpecNormalizer == InitNormalizer /\ [][NextNormalizer]_vars

(***************************************************************************)
(* The Transaction aggregate.  JSON numbers are [num |-> n], JSON strings  *)
(* [str |-> s]; object ids are strings; a property that holds null or an   *)
(* array holds Null or [arr |-> <<...>>]; `undefined` is modelled as null. *)
(***************************************************************************)
\* obj[key], null when the property is absent
Get(obj, key) == IF Has(obj, key) THEN obj[key] ELSE Null

\* JavaScript truthiness of a JSON value
Truthy(v) == v \notin {Null, [num |-> 0], [str |-> ""], [bool |-> FALSE]}

\* v || null
OrNull(v) == IF Truthy(v) THEN v ELSE Null

\* array.map(f) and array.filter(p) are written as function constructors and SelectSeq
Range(seq) == {seq[i] : i \in DOMAIN seq}

\* the state the constructor leaves
NewTransaction ==
    [digest |-> Null, sender |-> Null, epoch |-> Null, checkpoint |-> Null,
     status |-> Null, kind |-> Null,
     gas_data |-> [payment |-> Null, storage_rebate |-> Null, non_refundable_fee |-> Null,
                   rebate_rate |-> Null, coins |-> <<>>, per_object_breakup |-> <<>>],
     changed_objects |-> <<>>,
     _objects |-> <<>>]

\* the object record loadReplayCacheSummary makes of a cache entry
cacheObject(entry) ==
    [object_id |-> entry.object_id, version |-> entry.version, status |-> Null,
     source |-> Null, type |-> Null, object_type |-> entry.object_type]

loadReplayCacheSummary(t, json) ==
    [t EXCEPT !.epoch = OrNull(Get(json, "epoch_id")),
              !.checkpoint = OrNull(Get(json, "checkpoint")),
              !._objects =
                  IF Has(json, "cache_entries")
                  THEN t._objects \o [i \in 1..Len(json.cache_entries) |->
                                          cacheObject(json.cache_entries[i])]
                  ELSE t._objects]

\* the id an object input names (null for a pure input or an unknown object form)
inputObjectId(input) ==
    IF ~Has(input, "Object") THEN Null
    ELSE IF Has(input.Object, "ImmOrOwnedObject") THEN [str |-> input.Object.ImmOrOwnedObject[1]]
    ELSE IF Has(input.Object, "SharedObject") THEN [str |-> input.Object.SharedObject.id]
    ELSE IF Has(input.Object, "Receiving") THEN [str |-> input.Object.Receiving[1]]
    ELSE Null

\* this.kind?.ProgrammableTransaction?.inputs || [] and ...commands || []
ptbInputs(t) ==
    IF t.kind # Null /\ Has(t.kind, "ProgrammableTransaction")
    THEN t.kind.ProgrammableTransaction.inputs ELSE <<>>

ptbCommands(t) ==
    IF t.kind # Null /\ Has(t.kind, "ProgrammableTransaction")
    THEN t.kind.ProgrammableTransaction.commands ELSE <<>>

getInputObjects(t) ==
    {inputObjectId(i).str : i \in {j \in Range(ptbInputs(t)) : inputObjectId(j) # Null}}
    \cup {c.MoveCall.package : c \in {d \in Range(ptbCommands(t)) : Has(d, "MoveCall")}}

getGasPaymentObjects(t) ==
    IF t.gas_data.payment # Null
    THEN {p[1] : p \in Range(t.gas_data.payment.arr)}
    ELSE {}

\* the source of an object with the input set looked at before the gas payment set
sourceOfInputFirst(t, obj) ==
    IF obj.object_id \in getInputObjects(t) THEN [str |-> "Input"]
    ELSE IF obj.object_id \in getGasPaymentObjects(t) THEN [str |-> "Gas"]
    ELSE [str |-> "Runtime"]

\* the source _populateObjectSources and _updateObjectStatusAndSource give an object
sourceOf(t, obj) ==
    IF obj.object_id \in getGasPaymentObjects(t) THEN [str |-> "Gas"]
    ELSE IF obj.object_id \in getInputObjects(t) THEN [str |-> "Input"]
    ELSE [str |-> "Runtime"]

_populateObjectSources(t) ==
    [t EXCEPT !._objects =
        [i \in 1..Len(t._objects) |-> With(t._objects[i], "source", sourceOf(t, t._objects[i]))]]

loadTransactionData(t, json) ==
    LET v1      == IF Has(json, "V1") THEN json.V1 ELSE [none |-> TRUE]
        gasData == IF Has(v1, "gas_data") THEN v1.gas_data ELSE [none |-> TRUE]
        payment == IF Has(gasData, "payment") THEN [arr |-> gasData.payment] ELSE Null
        t1 == [t EXCEPT !.sender = OrNull(Get(v1, "sender")),
                        !.kind = OrNull(Get(v1, "kind")),
                        !.gas_data.payment = payment,
                        !.gas_data.coins =
                            IF payment # Null
                            THEN [i \in 1..Len(payment.arr) |-> payment.arr[i][1]]
                            ELSE t.gas_data.coins]
    IN  _populateObjectSources(t1)

\* this._objects.find(o => o.object_id === objectId): its index, 0 when there is none
findObject(objects, objectId) ==
    IF \E i \in DOMAIN objects : objects[i].object_id = objectId
    THEN CHOOSE i \in DOMAIN objects :
            /\ objects[i].object_id = objectId
            /\ \A j \in 1..(i - 1) : objects[j].object_id # objectId
    ELSE 0

\* the id_operation of a change taken as the status
v2StatusUnmapped(changeInfo) == Get(changeInfo, "id_operation")

\* the status processV2ChangedObjects maps an id_operation to
v2Status(changeInfo) ==
    IF Get(changeInfo, "id_operation") = [str |-> "Created"] THEN [str |-> "Created"]
    ELSE IF Get(changeInfo, "id_operation") = [str |-> "Deleted"] THEN [str |-> "Deleted"]
    ELSE IF Get(changeInfo, "id_operation") = [str |-> "None"] THEN [str |-> "Modified"]
    ELSE Null

\* the version processV2ChangedObjects gives a synthesized object
v2Version(changeInfo) ==
    IF Has(changeInfo, "input_state") /\ Has(changeInfo.input_state, "Exist")
    THEN changeInfo.input_state.Exist[1][1]
    ELSE IF Has(changeInfo, "output_state") /\ Has(changeInfo.output_state, "ObjectWrite")
    THEN changeInfo.output_state.ObjectWrite[1]
    ELSE Null

\* the object record the effects loaders synthesize for a created object
createdObject(objectId, version) ==
    [object_id |-> objectId, version |-> version, object_type |-> [str |-> "Unknown"],
     status |-> [str |-> "Created"], source |-> [str |-> "Runtime"]]

\* one step of the forEach loops of the effects loaders: record the id, set the
\* status of the object if it is known, add it if it is not and synthesize says so
changeObject(t, objectId, status, synthesize, version) ==
    LET i  == findObject(t._objects, objectId)
        t1 == [t EXCEPT !.changed_objects = Append(t.changed_objects, objectId)]
    IN  IF i # 0 THEN [t1 EXCEPT !._objects[i] = With(t._objects[i], "status", status)]
        ELSE IF synthesize
        THEN [t1 EXCEPT !._objects = Append(t._objects, createdObject(objectId, version))]
        ELSE t1

RECURSIVE processV2ChangedObjects(_, _)
processV2ChangedObjects(t, changedObjects) ==
    IF changedObjects = <<>> THEN t
    ELSE LET objectId   == Head(changedObjects)[1]
             changeInfo == Head(changedObjects)[2]
             status     == v2Status(changeInfo)
         IN  processV2ChangedObjects(
                 changeObject(t, objectId, status, status = [str |-> "Created"],
                              v2Version(changeInfo)),
                 Tail(changedObjects))

\* effects.created.forEach(([[objectId, version, _digest], _owner]) => ...)
RECURSIVE processV1Created(_, _)
processV1Created(t, created) ==
    IF created = <<>> THEN t
    ELSE processV1Created(
             changeObject(t, Head(created)[1][1], [str |-> "Created"], TRUE,
                          Head(created)[1][2]),
             Tail(created))

\* effects.mutated.forEach(([[objectId, version, _digest], _owner]) => ...)
RECURSIVE processV1Mutated(_, _)
processV1Mutated(t, mutated) ==
    IF mutated = <<>> THEN t
    ELSE processV1Mutated(
             changeObject(t, Head(mutated)[1][1], [str |-> "Modified"], FALSE, Null),
             Tail(mutated))

\* effects.deleted.forEach(([objectId, version, _digest]) => ...)
RECURSIVE processV1Deleted(_, _)
processV1Deleted(t, deleted) ==
    IF deleted = <<>> THEN t
    ELSE processV1Deleted(
             changeObject(t, Head(deleted)[1], [str |-> "Deleted"], FALSE, Null),
             Tail(deleted))

processV1ChangedObjects(t, effects) ==
    LET t1 == IF Has(effects, "created") THEN processV1Created(t, effects.created) ELSE t
        t2 == IF Has(effects, "mutated") THEN processV1Mutated(t1, effects.mutated) ELSE t1
    IN  IF Has(effects, "deleted") THEN processV1Deleted(t2, effects.deleted) ELSE t2

\* _updateObjectStatusAndSource setting the status whether or not one is set
_updateObjectStatusAlways(t) ==
    [t EXCEPT !._objects =
        [i \in 1..Len(t._objects) |->
            With(With(t._objects[i], "source", sourceOf(t, t._objects[i])),
                 "status", [str |-> "Accessed"])]]

_updateObjectStatusAndSource(t) ==
    [t EXCEPT !._objects =
        [i \in 1..Len(t._objects) |->
            LET obj == With(t._objects[i], "source", sourceOf(t, t._objects[i]))
            IN  IF ~Truthy(obj.status) THEN With(obj, "status", [str |-> "Accessed"])
                ELSE obj]]

loadTransactionEffects(t, json) ==
    LET isV1    == Has(json, "V1")
        isV2    == Has(json, "V2")
        effects == IF isV1 THEN json.V1 ELSE IF isV2 THEN json.V2 ELSE [none |-> TRUE]
        t1 == [t EXCEPT !.status = OrNull(Get(effects, "status")),
                        !.epoch = OrNull(Get(effects, "executed_epoch")),
                        !.digest = OrNull(Get(effects, "transaction_digest"))]
        t2 == IF isV2
              THEN processV2ChangedObjects(t1, IF Has(effects, "changed_objects")
                                               THEN effects.changed_objects ELSE <<>>)
              ELSE IF isV1 THEN processV1ChangedObjects(t1, effects)
              ELSE t1
    IN  _updateObjectStatusAndSource(t2)

\* this._objects.filter(o => o.status === 'Created'), and likewise for the others
getCreatedObjects(t) == SelectSeq(t._objects, LAMBDA o : o.status = [str |-> "Created"])

getDeletedObjects(t) == SelectSeq(t._objects, LAMBDA o : o.status = [str |-> "Deleted"])

getModifiedObjects(t) == SelectSeq(t._objects, LAMBDA o : o.status = [str |-> "Modified"])

\* v || 0 on a JSON number
NumOr0(v) == IF Truthy(v) THEN v.num ELSE 0

\* the default rebate rate of loadTransactionGasReport
DefaultRebateRate == 9900

\* Math.floor(storageRebate * (10000 - rebateRate) / 10000); storageCost is not used
calculateNonRefundableFee(storageCost, storageRebate, rebateRate) ==
    (storageRebate * (10000 - rebateRate)) \div 10000

\* this.gas_data.rebate_rate || 9900
rebateRateOrDefault(rebate_rate) ==
    IF Truthy(rebate_rate) THEN rebate_rate.num ELSE DefaultRebateRate

\* the breakup entry of one [objectId, storageInfo] pair of per_object_storage
breakupEntry(entry, rebate_rate) ==
    LET objectId    == entry[1]
        storageInfo == entry[2]
    IN  [object_id |-> objectId,
         size |-> NumOr0(Get(storageInfo, "new_size")),
         storage_cost |-> NumOr0(Get(storageInfo, "storage_cost")),
         storage_rebate |-> NumOr0(Get(storageInfo, "storage_rebate")),
         non_refundable_fee |->
             calculateNonRefundableFee(NumOr0(Get(storageInfo, "storage_cost")),
                                       NumOr0(Get(storageInfo, "storage_rebate")),
                                       rebateRateOrDefault(rebate_rate))]

loadTransactionGasReport(t, json) ==
    LET costSummary == IF Has(json, "cost_summary") THEN json.cost_summary ELSE [none |-> TRUE]
        rebate_rate == OrNull(Get(json, "rebate_rate"))
    IN  [t EXCEPT !.gas_data.storage_rebate = OrNull(Get(costSummary, "storageRebate")),
                  !.gas_data.non_refundable_fee =
                      OrNull(Get(costSummary, "nonRefundableStorageFee")),
                  !.gas_data.rebate_rate = rebate_rate,
                  !.gas_data.per_object_breakup =
                      IF Has(json, "per_object_storage")
                      THEN [i \in 1..Len(json.per_object_storage) |->
                               breakupEntry(json.per_object_storage[i], rebate_rate)]
                      ELSE t.gas_data.per_object_breakup]

\* the commands of loadPtbDetails after cmd._signature = signatures[index]
signedCommands(commands, signatures) ==
    [i \in 1..Len(commands) |->
        IF i <= Len(signatures) THEN With(commands[i], "_signature", signatures[i])
        ELSE commands[i]]

\* the kind object (shared by the Transaction and the transaction_data artifact)
\* after loadPtbDetails
signedKind(kind, json) ==
    IF Has(json, "command_signatures") /\ kind # Null /\ Has(kind, "ProgrammableTransaction")
    THEN [kind EXCEPT !.ProgrammableTransaction.commands =
             signedCommands(kind.ProgrammableTransaction.commands, json.command_signatures)]
    ELSE kind

loadPtbDetails(t, json) == [t EXCEPT !.kind = signedKind(t.kind, json)]

(***************************************************************************)
(* Commands: the parsed Command objects of getCommands.                    *)
(***************************************************************************)
getObjectMoveType(t, objectId) ==
    LET i == findObject(t._objects, objectId)
    IN  IF i = 0 THEN Null
        ELSE IF Has(t._objects[i].object_type, "Package")
        THEN MoveType(Null, Null, [str |-> "MovePackage"], <<>>, TRUE)
        ELSE IF Has(t._objects[i].object_type, "MoveObject")
        THEN fromTypeStructure(t._objects[i].object_type.MoveObject)
        ELSE Null

\* the package '000...02' of the framework types of the gas coin
SuiPackage == [i \in 1..64 |-> IF i = 64 THEN "2" ELSE "0"]

\* Coin<SUI>, the type of the gas coin
GasCoinType ==
    MoveType([str |-> SuiPackage], [str |-> "coin"], [str |-> "Coin"],
             <<MoveType([str |-> SuiPackage], [str |-> "sui"], [str |-> "SUI"], <<>>, FALSE)>>,
             FALSE)

\* inputs[arg.Input] when arg is an Input argument naming an object input
objectInputOf(arg, inputs) ==
    IF Has(arg, "Input") /\ (arg.Input + 1) \in DOMAIN inputs
       /\ Has(inputs[arg.Input + 1], "Object")
    THEN inputs[arg.Input + 1]
    ELSE Null

\* the coin type SplitCoinsCommand and MergeCoinsCommand find for their coin argument
coinTypeOf(arg, t, inputs) ==
    IF objectInputOf(arg, inputs) # Null
    THEN LET objectId == inputObjectId(objectInputOf(arg, inputs))
         IN  IF Truthy(objectId) THEN getObjectMoveType(t, objectId.str) ELSE Null
    ELSE IF arg = [str |-> "GasCoin"] \/ Has(arg, "GasCoin") THEN GasCoinType
    ELSE Null

\* super(type ? [type] : [])
typeArgsOf(type) == IF type # Null THEN <<type>> ELSE <<>>

SplitCoinsCommand_fromRawCommand(rawCmd, t, inputs) ==
    LET coinType == coinTypeOf(rawCmd.SplitCoins[1], t, inputs)
    IN  [type |-> "SplitCoins", coin |-> rawCmd.SplitCoins[1],
         amounts |-> rawCmd.SplitCoins[2], coinType |-> coinType,
         typeArgs |-> typeArgsOf(coinType)]

MergeCoinsCommand_fromRawCommand(rawCmd, t, inputs) ==
    LET coinType == coinTypeOf(rawCmd.MergeCoins[1], t, inputs)
    IN  [type |-> "MergeCoins", target |-> rawCmd.MergeCoins[1],
         sources |-> rawCmd.MergeCoins[2], coinType |-> coinType,
         typeArgs |-> typeArgsOf(coinType)]

MoveCallCommand_fromRawCommand(rawCmd, t) ==
    LET mc       == rawCmd.MoveCall
        typeArgs == IF Has(mc, "type_arguments")
                    THEN [i \in 1..Len(mc.type_arguments) |->
                             fromTypeStructure(mc.type_arguments[i])]
                    ELSE <<>>
    IN  [type |-> "MoveCall",
         function |-> [package |-> mc.package, module |-> mc.module, name |-> mc.function,
                       typeArgs |-> typeArgs],
         signature |-> Get(rawCmd, "_signature"), typeArgs |-> typeArgs]

\* rawCommands[cmdIndex] (null when there is no such command)
commandAt(rawCommands, cmdIndex) ==
    IF (cmdIndex + 1) \in DOMAIN rawCommands THEN rawCommands[cmdIndex + 1] ELSE Null

RECURSIVE MakeMoveVecCommand_fromRawCommand(_, _, _, _)
RECURSIVE _inferTypeFromCommand(_, _, _, _)

\* rawCommands is Null or [arr |-> the raw commands]
MakeMoveVecCommand_fromRawCommand(rawCmd, t, inputs, rawCommands) ==
    LET typeArg  == rawCmd.MakeMoveVec[1]
        elements == rawCmd.MakeMoveVec[2]
        elementType ==
            IF Truthy(typeArg) THEN fromTypeStructure(typeArg)
            ELSE IF Len(elements) > 0
            THEN LET firstElem == elements[1]
                 IN  IF Has(firstElem, "Result") /\ rawCommands # Null
                     THEN _inferTypeFromCommand(commandAt(rawCommands.arr, firstElem.Result),
                                                0, t, inputs)
                     ELSE IF Has(firstElem, "NestedResult") /\ rawCommands # Null
                     THEN _inferTypeFromCommand(
                              commandAt(rawCommands.arr, firstElem.NestedResult[1]),
                              firstElem.NestedResult[2], t, inputs)
                     ELSE Null
            ELSE Null
    IN  [type |-> "MakeMoveVec", elements |-> elements, elementType |-> elementType,
         typeArgs |-> typeArgsOf(elementType)]

_inferTypeFromCommand(previousCmd, resultIndex, t, inputs) ==
    IF previousCmd = Null THEN Null
    ELSE IF Has(previousCmd, "MoveCall")
    THEN IF Truthy(Get(previousCmd, "_signature"))
            /\ Has(previousCmd._signature, "return_types")
            /\ resultIndex < Len(previousCmd._signature.return_types)
         THEN fromTypeStructure(previousCmd._signature.return_types[resultIndex + 1])
         ELSE Null
    ELSE IF Has(previousCmd, "SplitCoins")
    THEN SplitCoinsCommand_fromRawCommand(previousCmd, t, inputs).coinType
    ELSE IF Has(previousCmd, "MakeMoveVec")
    THEN LET parsedCmd == MakeMoveVecCommand_fromRawCommand(previousCmd, t, inputs, Null)
         IN  IF parsedCmd.elementType # Null
             THEN MoveType(Null, [str |-> "vector"], [str |-> "vector"],
                           <<parsedCmd.elementType>>, TRUE)
             ELSE Null
    ELSE Null

\* the callback of rawCommands.map in getCommands
parseCommand(rawCmd, t, inputs, rawCommands) ==
    IF Has(rawCmd, "MoveCall") THEN MoveCallCommand_fromRawCommand(rawCmd, t)
    ELSE IF Has(rawCmd, "SplitCoins") THEN SplitCoinsCommand_fromRawCommand(rawCmd, t, inputs)
    ELSE IF Has(rawCmd, "MergeCoins") THEN MergeCoinsCommand_fromRawCommand(rawCmd, t, inputs)
    ELSE IF Has(rawCmd, "MakeMoveVec")
    THEN MakeMoveVecCommand_fromRawCommand(rawCmd, t, inputs, [arr |-> rawCommands])
    ELSE IF Has(rawCmd, "TransferObjects")
    THEN [type |-> "TransferObjects", objects |-> rawCmd.TransferObjects[1],
          address |-> rawCmd.TransferObjects[2], typeArgs |-> <<>>]
    ELSE IF Has(rawCmd, "Publish") THEN [type |-> "Publish", typeArgs |-> <<>>]
    ELSE IF Has(rawCmd, "Upgrade") THEN [type |-> "Upgrade", typeArgs |-> <<>>]
    ELSE Null

IsCommand(cmd) == cmd # Null

getCommands(t) ==
    LET rawCommands == ptbCommands(t)
        inputs      == ptbInputs(t)
    IN  SelectSeq([i \in 1..Len(rawCommands) |->
                      parseCommand(rawCommands[i], t, inputs, rawCommands)],
                  IsCommand)

\* the calls the inference of one command nests are followed DepthLimit deep
DepthLimit == 8

RECURSIVE fromRawCommandNestingFollowing(_, _, _, _, _)
RECURSIVE fromRawCommandNesting(_, _, _, _, _)
RECURSIVE _inferTypeFromCommandNesting(_, _, _, _)

\* the nesting of a fromRawCommand that follows the references of a nested
\* MakeMoveVec as well (it is handed the command list instead of null)
fromRawCommandNestingFollowing(rawCmd, t, inputs, rawCommands, limit) ==
    IF limit = 0 THEN 0
    ELSE LET typeArg  == rawCmd.MakeMoveVec[1]
             elements == rawCmd.MakeMoveVec[2]
         IN  IF Truthy(typeArg) THEN 1
             ELSE IF Len(elements) > 0
             THEN LET firstElem == elements[1]
                  IN  IF Has(firstElem, "Result")
                      THEN 1 + _inferTypeFromCommandNesting(
                                   commandAt(ptbCommands(t), firstElem.Result),
                                   t, inputs, limit - 1)
                      ELSE IF Has(firstElem, "NestedResult")
                      THEN 1 + _inferTypeFromCommandNesting(
                                   commandAt(ptbCommands(t), firstElem.NestedResult[1]),
                                   t, inputs, limit - 1)
                      ELSE 1
             ELSE 1

\* the number of calls nested in MakeMoveVecCommand.fromRawCommand(rawCmd, transaction,
\* inputs, rawCommands), this call included: fromRawCommand, _inferTypeFromCommand
\* and SplitCoinsCommand.fromRawCommand count, down to limit calls
fromRawCommandNesting(rawCmd, t, inputs, rawCommands, limit) ==
    IF limit = 0 THEN 0
    ELSE LET typeArg  == rawCmd.MakeMoveVec[1]
             elements == rawCmd.MakeMoveVec[2]
         IN  IF Truthy(typeArg) THEN 1
             ELSE IF Len(elements) > 0
             THEN LET firstElem == elements[1]
                  IN  IF Has(firstElem, "Result") /\ rawCommands # Null
                      THEN 1 + _inferTypeFromCommandNesting(
                                   commandAt(rawCommands.arr, firstElem.Result),
                                   t, inputs, limit - 1)
                      ELSE IF Has(firstElem, "NestedResult") /\ rawCommands # Null
                      THEN 1 + _inferTypeFromCommandNesting(
                                   commandAt(rawCommands.arr, firstElem.NestedResult[1]),
                                   t, inputs, limit - 1)
                      ELSE 1
             ELSE 1

_inferTypeFromCommandNesting(previousCmd, t, inputs, limit) ==
    IF limit = 0 THEN 0
    ELSE IF previousCmd = Null THEN 1
    ELSE IF Has(previousCmd, "MoveCall") THEN 1
    ELSE IF Has(previousCmd, "SplitCoins") THEN 1 + Min(1, limit - 1)
    ELSE IF Has(previousCmd, "MakeMoveVec")
    THEN 1 + fromRawCommandNesting(previousCmd, t, inputs, Null, limit - 1)
    ELSE 1

(***************************************************************************)
(* Rendered type strings and the first pass of renderTransactionOverview.  *)
(***************************************************************************)
\* the JSON text ptbTypeToString falls back to is one token
RECURSIVE ptbTypeToString(_)
ptbTypeToString(typeObj) ==
    IF ~Truthy(typeObj) THEN <<"unknown">>
    ELSE IF IsString(typeObj) THEN <<toLowerCase(typeObj.str)>>
    ELSE IF Has(typeObj, "Vector")
    THEN <<"vector", "<">> \o ptbTypeToString(typeObj.Vector) \o <<">">>
    ELSE IF Has(typeObj, "Datatype")
    THEN LET d == typeObj.Datatype
         IN  withPrefix(d[1]) \o <<"::", d[2], "::", d[3]>>
    ELSE IF Has(typeObj, "DatatypeInstantiation")
    THEN LET d        == typeObj.DatatypeInstantiation[1]
             typeArgs == typeObj.DatatypeInstantiation[2]
         IN  withPrefix(d[1]) \o <<"::", d[2], "::", d[3]>>
             \o (IF Len(typeArgs) > 0
                 THEN <<"<">> \o Join([i \in 1..Len(typeArgs) |->
                                          ptbTypeToString(typeArgs[i])], <<", ">>) \o <<">">>
                 ELSE <<>>)
    ELSE IF Has(typeObj, "Reference") THEN <<"&">> \o ptbTypeToString(typeObj.Reference)
    ELSE IF Has(typeObj, "MutableReference")
    THEN <<"&mut ">> \o ptbTypeToString(typeObj.MutableReference)
    ELSE IF Has(typeObj, "TypeParameter") THEN <<"T", ToString(typeObj.TypeParameter)>>
    ELSE <<"JSON.stringify(typeObj)">>

\* '0x0000000000000000000000000000000000000000000000000000000000000002::package::UpgradeCap'
UpgradeCapString == <<"0", "x">> \o SuiPackage \o <<"::", "package", "::", "UpgradeCap">>

\* the body of the first forEach of renderTransactionOverview: the return type of
\* raw command cmd, parsedCommand being parsedCommands[i] (Null when there is none)
firstPassReturnType(cmd, parsedCommand) ==
    LET ptbSignature == Get(cmd, "_signature")
    IN  IF Has(cmd, "MoveCall")
        THEN IF Truthy(ptbSignature) /\ Has(ptbSignature, "return_types")
                /\ Len(ptbSignature.return_types) > 0
             THEN [arr |-> [j \in 1..Len(ptbSignature.return_types) |->
                               [str |-> ptbTypeToString(ptbSignature.return_types[j])]]]
             ELSE [str |-> <<"void">>]
        ELSE IF Has(cmd, "SplitCoins")
        THEN LET numReturns == Len(cmd.SplitCoins[2])
                 coinTypeString ==
                     IF parsedCommand # Null /\ Truthy(Get(parsedCommand, "coinType"))
                     THEN toFullyQualifiedString(parsedCommand.coinType)
                     ELSE <<"T">>
             IN  [arr |-> [j \in 1..numReturns |-> [str |-> coinTypeString]]]
        ELSE IF Has(cmd, "MergeCoins") THEN [str |-> <<"void">>]
        ELSE IF Has(cmd, "Publish") THEN [str |-> UpgradeCapString]
        ELSE IF Has(cmd, "MakeMoveVec")
        THEN IF parsedCommand # Null /\ Truthy(Get(parsedCommand, "elementType"))
             THEN [str |-> <<"vector", "<">>
                           \o toFullyQualifiedString(parsedCommand.elementType) \o <<">">>]
             ELSE [str |-> <<"vector", "<", "T", ">">>]
        ELSE IF Has(cmd, "TransferObjects") \/ Has(cmd, "Upgrade") THEN [str |-> <<"void">>]
        ELSE [str |-> <<"unknown">>]

\* this.commandReturnTypes after the first pass (index i of the code is i + 1 here);
\* the table is left as it was when the transaction is not a programmable one
firstPass(t, before) ==
    IF t.kind # Null /\ Has(t.kind, "ProgrammableTransaction")
    THEN LET commands       == t.kind.ProgrammableTransaction.commands
             parsedCommands == getCommands(t)
         IN  [arr |-> [i \in 1..Len(commands) |->
                          firstPassReturnType(commands[i],
                              IF i \in DOMAIN parsedCommands THEN parsedCommands[i]
                              ELSE Null)]]
    ELSE before

\* inferCommandReturnType(cmdIndex, resultIndex) on the table commandReturnTypes
inferCommandReturnType(returnTypesTable, cmdIndex, resultIndex) ==
    IF returnTypesTable # Null /\ (cmdIndex + 1) \in DOMAIN returnTypesTable.arr
    THEN LET returnTypes == returnTypesTable.arr[cmdIndex + 1]
         IN  IF Has(returnTypes, "arr")
             THEN IF resultIndex < Len(returnTypes.arr)
                  THEN returnTypes.arr[resultIndex + 1]
                  ELSE [str |-> <<"unknown">>]
             ELSE IF resultIndex = 0 THEN returnTypes
             ELSE [str |-> <<"unknown">>]
    ELSE [str |-> <<"unknown">>]

(***************************************************************************)
(* Artifacts the viewer is given, and analyzeTransaction step by step.     *)
(***************************************************************************)
\* command lists of up to MaxCommands commands
MaxCommands == 3

CoinOf(inner) ==
    [address |-> <<"0", "x", "2">>, module |-> "coin", name |-> "Coin",
     type_args |-> <<inner>>]

UsdcStruct ==
    [struct |-> [address |-> <<"0", "x", "a">>, module |-> "usdc", name |-> "USDC",
                 type_args |-> <<>>]]

CacheEntryA ==
    [object_id |-> "0xA", version |-> [num |-> 3],
     object_type |-> [MoveObject |-> CoinOf(UsdcStruct)]]

CacheEntryG ==
    [object_id |-> "0xG", version |-> [num |-> 9],
     object_type |-> [MoveObject |-> CoinOf(SuiStruct)]]

CacheEntryP ==
    [object_id |-> "0xP", version |-> [num |-> 1],
     object_type |-> [Package |-> [module_names |-> <<"m">>]]]

FullCache ==
    [epoch_id |-> [num |-> 7], checkpoint |-> [num |-> 42],
     cache_entries |-> <<CacheEntryA, CacheEntryG, CacheEntryP>>]

Caches ==
    { FullCache,
      [epoch_id |-> [num |-> 0], cache_entries |-> <<CacheEntryG>>],
      Null }

\* inputs 0: the owned coin 0xA, 1: a pure u64, 2: the shared object 0xB (not cached)
PtbInputs ==
    << [Object |-> [ImmOrOwnedObject |-> <<"0xA", "3", "digestA">>]],
       [Pure |-> <<1, 0, 0, 0, 0, 0, 0, 0>>],
       [Object |-> [SharedObject |-> [id |-> "0xB"]]] >>

SplitCoinsOf(coin, n) == [SplitCoins |-> <<coin, [i \in 1..n |-> [Input |-> 1]]>>]

CommandPool ==
    { SplitCoinsOf([str |-> "GasCoin"], 1),
      SplitCoinsOf([Input |-> 0], 2),
      SplitCoinsOf([Input |-> 2], 1),
      [MakeMoveVec |-> <<Null, <<[Result |-> 0]>>>>],
      [MakeMoveVec |-> <<Null, <<[Result |-> 1], [Result |-> 0]>>>>],
      [MakeMoveVec |-> <<Null, <<[NestedResult |-> <<0, 0>>]>>>>],
      [MakeMoveVec |-> <<Null, <<[NestedResult |-> <<1, 1>>]>>>>],
      [MakeMoveVec |-> <<[str |-> "U64"], <<[Input |-> 1]>>>>],
      [MoveCall |-> [package |-> "0xP", module |-> "m", function |-> "f",
                     type_arguments |-> <<[str |-> "U8"]>>]],
      [MergeCoins |-> <<[str |-> "GasCoin"], <<[Result |-> 0]>>>>],
      [TransferObjects |-> <<<<[Result |-> 0]>>, [Input |-> 1]>>],
      [Publish |-> <<<<>>, <<>>>>],
      [Upgrade |-> <<<<>>, <<>>, "0xP", [Result |-> 0]>>],
      [Other |-> <<>>] }

RECURSIVE CommandListsOf(_)
CommandListsOf(n) ==
    IF n = 0 THEN {<<>>}
    ELSE {Append(l, c) : l \in CommandListsOf(n - 1), c \in CommandPool}

CommandLists == UNION {CommandListsOf(n) : n \in 0..MaxCommands}

DefaultCommands ==
    << SplitCoinsOf([str |-> "GasCoin"], 1), [MakeMoveVec |-> <<Null, <<[Result |-> 0]>>>>] >>

GasData == [payment |-> << <<"0xG", "9", "digestG">> >>]

\* transaction_data with the given commands; sender is Null for a missing sender field
TransactionData(sender, commands) ==
    LET kind == [ProgrammableTransaction |-> [inputs |-> PtbInputs, commands |-> commands]]
    IN  IF sender = Null THEN [V1 |-> [kind |-> kind, gas_data |-> GasData]]
        ELSE [V1 |-> [sender |-> sender, kind |-> kind, gas_data |-> GasData]]

Senders == {[str |-> "0xS"], Null}

DefaultEffects ==
    [V2 |-> [status |-> [str |-> "Success"], executed_epoch |-> [num |-> 8],
             transaction_digest |-> [str |-> "D"],
             changed_objects |->
                 << <<"0xG", [id_operation |-> [str |-> "None"]]>>,
                    <<"0xN", [id_operation |-> [str |-> "Created"],
                              output_state |-> [ObjectWrite |-> <<[str |-> "digestN"]>>]]>>,
                    <<"0xA", [id_operation |-> [str |-> "Deleted"]]>> >>]]

EffectsSet ==
    { DefaultEffects,
      [V1 |-> [status |-> [str |-> "Success"],
               created |-> << << <<"0xN", [num |-> 1], "digestN">>, "owner" >> >>,
               mutated |-> << << <<"0xG", [num |-> 10], "digestG">>, "owner" >> >>,
               deleted |-> << <<"0xA", [num |-> 4], "digestA">> >>]],
      [V2 |-> [status |-> [str |-> "Success"]]],
      Null }

RebateRates == {0, 1, 5000, 9900, 10000}

StorageRebates == {0, 1, 150, 9999, 100000}

\* a gas report for two stored objects; rate is Null for a report without rebate_rate
GasReport(rate, rebate) ==
    LET info == [storage_cost |-> [num |-> 2 * rebate], storage_rebate |-> [num |-> rebate],
                 new_size |-> [num |-> 100], non_refundable_fee |-> [num |-> 777]]
        per  == << <<"0xA", info>>, <<"0xG", [storage_cost |-> [num |-> 5]]>> >>
    IN  IF rate = Null THEN [per_object_storage |-> per]
        ELSE [rebate_rate |-> rate, per_object_storage |-> per]

GasReports ==
    {GasReport([num |-> r], s) : r \in RebateRates, s \in StorageRebates}
    \cup {GasReport(Null, s) : s \in StorageRebates}
    \cup {Null}

\* move_call_info with one signature per command: return types for a MoveCall, null
\* for any other command
CallInfo(commands, return_types) ==
    [command_signatures |->
        [i \in 1..Len(commands) |->
            IF Has(commands[i], "MoveCall") THEN [return_types |-> return_types] ELSE Null]]

ReturnTypeLists ==
    { <<>>,
      <<[DatatypeInstantiation |->
            <<<<(<<"0", "x", "2">>), "coin", "Coin", <<>>>>,
              <<DatatypeOf(<<"0", "x", "2">>, "sui", "SUI")>>>>],
        [str |-> "U64"]>> }

\* the five artifacts of a selection
Files(cache, data, effects, gas, info) ==
    [replay_cache_summary |-> cache, transaction_data |-> data,
     transaction_effects |-> effects, transaction_gas_report |-> gas,
     move_call_info |-> info]

\* every command list with a full set of artifacts, with and without signatures ...
InitFilesByCommands ==
    \E commands \in CommandLists :
        \E info \in {Null} \cup {CallInfo(commands, r) : r \in ReturnTypeLists} :
            files = Files(FullCache, TransactionData([str |-> "0xS"], commands),
                          DefaultEffects, GasReport([num |-> 9900], 150), info)

\* ... and every choice of the other artifacts with the default command list
InitFilesByArtifacts ==
    \E cache \in Caches, sender \in Senders, effects \in EffectsSet, gas \in GasReports :
        files = Files(cache, TransactionData(sender, DefaultCommands), effects, gas,
                      CallInfo(DefaultCommands, <<>>))

\* the ids the effects can mention: the cached coins 0xA (an input) and 0xG (the gas
\* coin), the shared input 0xB and the object 0xN, neither of them cached
EffectIds == <<"0xA", "0xG", "0xB", "0xN">>

\* what the effects say of an id: its operation tag, or "-" when they do not mention it
Operations == {"Created", "None", "Deleted", "-"}

Descriptions == [DOMAIN EffectIds -> Operations]

\* the ids a description gives the operation op, in the order of EffectIds
idsOf(desc, op) ==
    LET positions == SelectSeq([i \in DOMAIN EffectIds |-> i], LAMBDA i : desc[i] = op)
    IN  [k \in DOMAIN positions |-> EffectIds[positions[k]]]

\* the V1 shape of a description: separate created, mutated and deleted lists
EffectsV1(desc) ==
    [V1 |-> [status |-> [str |-> "Success"], executed_epoch |-> [num |-> 8],
             created |-> [k \in DOMAIN idsOf(desc, "Created") |->
                             << <<idsOf(desc, "Created")[k], [num |-> 1], "digest">>,
                                "owner" >>],
             mutated |-> [k \in DOMAIN idsOf(desc, "None") |->
                             << <<idsOf(desc, "None")[k], [num |-> 2], "digest">>,
                                "owner" >>],
             deleted |-> [k \in DOMAIN idsOf(desc, "Deleted") |->
                             <<idsOf(desc, "Deleted")[k], [num |-> 3], "digest">>]]]

\* the V2 shape: one changed_objects list of (objectId, changeInfo) pairs
EffectsV2(desc) ==
    LET mentioned == SelectSeq([i \in DOMAIN EffectIds |-> i], LAMBDA i : desc[i] # "-")
    IN  [V2 |-> [status |-> [str |-> "Success"], executed_epoch |-> [num |-> 8],
                 changed_objects |->
                     [k \in DOMAIN mentioned |->
                         <<EffectIds[mentioned[k]],
                           IF desc[mentioned[k]] = "Created"
                           THEN [id_operation |-> [str |-> "Created"],
                                 output_state |-> [ObjectWrite |-> <<[str |-> "digest"]>>]]
                           ELSE [id_operation |-> [str |-> desc[mentioned[k]]]]>>]]]

\* gas payments: the gas coin; the input coin 0xA and the gas coin; none
Payments ==
    { << <<"0xG", "9", "digestG">> >>,
      << <<"0xA", "3", "digestA">>, <<"0xG", "9", "digestG">> >>,
      <<>> }

\* a command list that calls into the cached package 0xP
CallCommands ==
    << SplitCoinsOf([str |-> "GasCoin"], 1),
       [MoveCall |-> [package |-> "0xP", module |-> "m", function |-> "f",
                      type_arguments |-> <<>>]] >>

TransactionDataPaying(payment) ==
    [V1 |-> [sender |-> [str |-> "0xS"],
             kind |-> [ProgrammableTransaction |->
                          [inputs |-> PtbInputs, commands |-> CallCommands]],
             gas_data |-> [payment |-> payment]]]

\* ... and every description of the effects, in both shapes, with every gas payment
InitFilesByObjects ==
    \E cache \in Caches, payment \in Payments, desc \in Descriptions :
        \E effects \in {EffectsV1(desc), EffectsV2(desc)} :
            files = Files(cache, TransactionDataPaying(payment), effects,
                          GasReport([num |-> 9900], 150), Null)

InitViewer ==
    /\ \/ InitFilesByCommands
       \/ InitFilesByArtifacts
       \/ InitFilesByObjects
       \/ files = Files(Null, Null, Null, Null, Null)
    /\ pc = "analyzeTransaction"
    /\ transaction = Null
    /\ viewerTransaction = Null
    /\ commandReturnTypes = Null
    /\ eff = Null
    /\ supplied = files
    /\ IdleParser
    /\ IdlePage
    /\ IdleDecoder
    /\ IdleAddresses
    /\ IdleTypes

\* analyzeTransaction calls Transaction.fromFiles: const transaction = new Transaction()
FromFiles ==
    /\ pc = "analyzeTransaction"
    /\ transaction' = NewTransaction
    /\ pc' = "loadReplayCacheSummary"
    /\ UNCHANGED <<files, viewerTransaction, commandReturnTypes, eff, decVars,
                 typVars, restVars>>

LoadReplayCacheSummary ==
    /\ pc = "loadReplayCacheSummary"
    /\ transaction' = IF files.replay_cache_summary # Null
                      THEN loadReplayCacheSummary(transaction, files.replay_cache_summary)
                      ELSE transaction
    /\ pc' = "loadTransactionData"
    /\ UNCHANGED <<files, viewerTransaction, commandReturnTypes, eff, decVars,
                 typVars, restVars>>

LoadTransactionData ==
    /\ pc = "loadTransactionData"
    /\ transaction' = IF files.transaction_data # Null
                      THEN loadTransactionData(transaction, files.transaction_data)
                      ELSE transaction
    /\ pc' = "loadTransactionEffects"
    /\ UNCHANGED <<files, viewerTransaction, commandReturnTypes, eff, decVars,
                 typVars, restVars>>

LoadTransactionEffects ==
    /\ pc = "loadTransactionEffects"
    /\ transaction' = IF files.transaction_effects # Null
                      THEN loadTransactionEffects(transaction, files.transaction_effects)
                      ELSE transaction
    /\ pc' = "loadTransactionGasReport"
    /\ UNCHANGED <<files, viewerTransaction, commandReturnTypes, eff, decVars,
                 typVars, restVars>>

LoadTransactionGasReport ==
    /\ pc = "loadTransactionGasReport"
    /\ transaction' = IF files.transaction_gas_report # Null
                      THEN loadTransactionGasReport(transaction, files.transaction_gas_report)
                      ELSE transaction
    /\ pc' = "loadPtbDetails"
    /\ UNCHANGED <<files, viewerTransaction, commandReturnTypes, eff, decVars,
                 typVars, restVars>>

\* transaction.kind is the kind object of the transaction_data artifact itself, so
\* the signatures loadPtbDetails attaches appear in both
LoadPtbDetails ==
    /\ pc = "loadPtbDetails"
    /\ IF files.move_call_info # Null
       THEN /\ transaction' = loadPtbDetails(transaction, files.move_call_info)
            /\ files' = IF transaction.kind # Null
                        THEN [files EXCEPT !.transaction_data.V1.kind =
                                 signedKind(transaction.kind, files.move_call_info)]
                        ELSE files
       ELSE UNCHANGED <<transaction, files>>
    /\ pc' = "return"
    /\ UNCHANGED <<viewerTransaction, commandReturnTypes, eff, decVars,
                 typVars, restVars>>

\* this.transaction = Transaction.fromFiles(this.files)
StoreTransaction ==
    /\ pc = "return"
    /\ viewerTransaction' = transaction
    /\ pc' = "renderTransactionOverview"
    /\ UNCHANGED <<files, transaction, commandReturnTypes, eff, decVars,
                 typVars, restVars>>

RenderTransactionOverview ==
    /\ pc = "renderTransactionOverview"
    /\ commandReturnTypes' = firstPass(viewerTransaction, commandReturnTypes)
    /\ pc' = "rendered"
    /\ UNCHANGED <<files, transaction, viewerTransaction, eff, decVars,
                 typVars, restVars>>

NextViewer ==
    \/ FromFiles
    \/ LoadReplayCacheSummary
    \/ LoadTransactionData
    \/ LoadTransactionEffects
    \/ LoadTransactionGasReport
    \/ LoadPtbDetails
    \/ StoreTransaction
    \/ RenderTransactionOverview

SpecViewer == InitViewer /\ [][NextViewer]_vars

(***************************************************************************)
(* The two shapes of the effects artifact side by side: one Transaction    *)
(* with the cache and the transaction data loaded, and the results of      *)
(* loadTransactionEffects on the V1 and on the V2 shape of one description.*)
(***************************************************************************)
InitEffects ==
    /\ \E cache \in Caches, payment \in Payments, desc \in Descriptions :
          eff = [desc |-> desc,
                 base |-> loadTransactionData(
                              IF cache # Null
                              THEN loadReplayCacheSummary(NewTransaction, cache)
                              ELSE NewTransaction,
                              TransactionDataPaying(payment)),
                 V1 |-> Null, V2 |-> Null]
    /\ files = Null
    /\ pc = "idle"
    /\ transaction = Null
    /\ viewerTransaction = Null
    /\ commandReturnTypes = Null
    /\ IdleRest
    /\ IdleDecoder
    /\ IdleAddresses
    /\ IdleTypes

LoadEffectsV1 ==
    /\ eff # Null
    /\ eff.V1 = Null
    /\ eff' = [eff EXCEPT !.V1 = loadTransactionEffects(eff.base, EffectsV1(eff.desc))]
    /\ UNCHANGED <<files, pc, transaction, viewerTransaction, commandReturnTypes,
                   decVars, typVars, restVars>>

LoadEffectsV2 ==
    /\ eff # Null
    /\ eff.V2 = Null
    /\ eff' = [eff EXCEPT !.V2 = loadTransactionEffects(eff.base, EffectsV2(eff.desc))]
    /\ UNCHANGED <<files, pc, transaction, viewerTransaction, commandReturnTypes,
                   decVars, typVars, restVars>>

NextEffects ==
    \/ LoadEffectsV1
    \/ LoadEffectsV2

SpecEffects == InitEffects /\ [][NextEffects]_vars

(***************************************************************************)
(* The display-string parser.  A type string is a sequence of tokens: the  *)
(* characters of an address, an identifier, "::", "<", ">", ", " (the      *)
(* separator join(', ') writes), "&mut ", "&" and " ".                     *)
(***************************************************************************)
\* String.prototype.trim: the string without its leading and trailing spaces
trim(str) ==
    LET inked == {i \in DOMAIN str : str[i] # " "}
    IN  IF inked = {} THEN <<>>
        ELSE SubSeq(str, CHOOSE i \in inked : \A j \in inked : i <= j,
                         CHOOSE i \in inked : \A j \in inked : j <= i)

\* str.indexOf(token) and str.lastIndexOf(token), 0-based, -1 when absent
indexOf(str, token) ==
    IF \E i \in DOMAIN str : str[i] = token
    THEN (CHOOSE i \in DOMAIN str : str[i] = token /\ \A j \in 1..(i - 1) : str[j] # token) - 1
    ELSE -1

lastIndexOf(str, token) ==
    IF \E i \in DOMAIN str : str[i] = token
    THEN (CHOOSE i \in DOMAIN str :
              str[i] = token /\ \A j \in (i + 1)..Len(str) : str[j] # token) - 1
    ELSE -1

\* str.substring(start, end): a negative bound counts as 0, and the bounds are
\* swapped when start > end
substring(str, start, end) ==
    LET a  == IF start < 0 THEN 0 ELSE Min(start, Len(str))
        b  == IF end < 0 THEN 0 ELSE Min(end, Len(str))
        lo == Min(a, b)
        hi == IF a < b THEN b ELSE a
    IN  SubSeq(str, lo + 1, hi)

\* the k-th smallest element of a set of numbers
Nth(S, k) == CHOOSE x \in S : Cardinality({y \in S : y < x}) = k - 1

\* the pieces of str between the positions in cuts, in order
PiecesBetween(str, cuts) ==
    LET marks == {0} \cup cuts \cup {Len(str) + 1}
    IN  [k \in 1..(Cardinality(marks) - 1) |->
            SubSeq(str, Nth(marks, k) + 1, Nth(marks, k + 1) - 1)]

\* str.split('::')
split(str) == PiecesBetween(str, {i \in DOMAIN str : str[i] = "::"})

\* the value of `depth` when the loop of splitTypeArgs reaches position i: the
\* number of '<' less the number of '>' before it
depthAt(argsStr, i) ==
    Cardinality({j \in 1..(i - 1) : argsStr[j] = "<"})
    - Cardinality({j \in 1..(i - 1) : argsStr[j] = ">"})

\* args.push(current.trim()) for every piece whose trim is not empty
pushTrimmed(pieces) ==
    SelectSeq([k \in DOMAIN pieces |-> trim(pieces[k])], LAMBDA piece : piece # <<>>)

\* the loop of splitTypeArgs cuts the string at every ',' met with depth 0 (the
\* token ", " is the ',' and the space after it, which trim removes)
splitTypeArgs(argsStr) ==
    pushTrimmed(PiecesBetween(argsStr, {i \in DOMAIN argsStr :
                                           argsStr[i] = ", " /\ depthAt(argsStr, i) = 0}))

\* the list `primitives` of parseTypeString
parsedPrimitives == {"bool", "u8", "u16", "u32", "u64", "u128", "u256", "address"}

RECURSIVE parseTypeString(_)
parseTypeString(typeStr) ==
    LET cleanType == trim(typeStr)
    IN  IF cleanType # <<>> /\ cleanType[1] = "&mut "
        THEN [reference |-> TRUE, mutable |-> TRUE,
              inner |-> parseTypeString(substring(cleanType, 1, Len(cleanType)))]
        ELSE IF cleanType # <<>> /\ cleanType[1] = "&"
        THEN [reference |-> TRUE, mutable |-> FALSE,
              inner |-> parseTypeString(trim(substring(cleanType, 1, Len(cleanType))))]
        ELSE IF Len(cleanType) = 1 /\ toLowerCase(cleanType[1]) \in parsedPrimitives
        THEN [primitive |-> <<toLowerCase(cleanType[1])>>]
        ELSE IF /\ Len(cleanType) >= 2 /\ cleanType[1] = "vector" /\ cleanType[2] = "<"
                /\ cleanType[Len(cleanType)] = ">"
        THEN [vector |-> TRUE,
              element |-> parseTypeString(substring(cleanType, 2, Len(cleanType) - 1))]
        ELSE LET genericStart == indexOf(cleanType, "<")
             IN  IF genericStart = -1
                 THEN LET parts == split(cleanType)
                      IN  IF Len(parts) = 2
                          THEN [package |-> Null, module |-> parts[1], name |-> parts[2],
                                typeArgs |-> <<>>]
                          ELSE IF Len(parts) = 3
                          THEN [package |-> parts[1], module |-> parts[2], name |-> parts[3],
                                typeArgs |-> <<>>]
                          ELSE [primitive |-> cleanType]
                 ELSE LET basename == substring(cleanType, 0, genericStart)
                          parts    == split(basename)
                          argsStr  == substring(cleanType, genericStart + 1,
                                                lastIndexOf(cleanType, ">"))
                          pieces   == splitTypeArgs(argsStr)
                          typeArgs == [i \in 1..Len(pieces) |-> parseTypeString(pieces[i])]
                      IN  IF Len(parts) = 2
                          THEN [package |-> Null, module |-> parts[1], name |-> parts[2],
                                typeArgs |-> typeArgs]
                          ELSE IF Len(parts) = 3
                          THEN [package |-> parts[1], module |-> parts[2], name |-> parts[3],
                                typeArgs |-> typeArgs]
                          ELSE Null

\* the loop of findPackageForType over the cache entries; an object id is one token
RECURSIVE findPackageLoop(_, _, _)
findPackageLoop(module, typeName, entries) ==
    IF entries = <<>> THEN Null
    ELSE LET entry == Head(entries)
         IN  IF Has(entry.object_type, "Package")
             THEN IF /\ Has(entry.object_type.Package, "module_names")
                     /\ \E i \in DOMAIN entry.object_type.Package.module_names :
                           <<entry.object_type.Package.module_names[i]>> = module
                  THEN <<entry.object_id>>
                  ELSE findPackageLoop(module, typeName, Tail(entries))
             ELSE IF Has(entry.object_type, "MoveObject")
             THEN LET moveObj == entry.object_type.MoveObject
                  IN  IF <<moveObj.module>> = module /\ <<moveObj.name>> = typeName
                      THEN withPrefix(moveObj.address)
                      ELSE findPackageLoop(module, typeName, Tail(entries))
             ELSE findPackageLoop(module, typeName, Tail(entries))

findPackageForType(module, typeName, cacheData) ==
    IF cacheData = Null \/ ~Has(cacheData, "cache_entries") THEN Null
    ELSE findPackageLoop(module, typeName, cacheData.cache_entries)

\* typeTree is a struct: typeTree.module && typeTree.name
IsStructTree(typeTree) ==
    /\ Has(typeTree, "module") /\ typeTree.module # <<>>
    /\ Has(typeTree, "name") /\ typeTree.name # <<>>

RECURSIVE buildFullQualifiedType(_, _, _)
buildFullQualifiedType(typeTree, packageId, cacheDataOrTransaction) ==
    IF typeTree = Null THEN <<>>
    ELSE IF Has(typeTree, "primitive") /\ typeTree.primitive # <<>> THEN typeTree.primitive
    ELSE IF Has(typeTree, "reference") /\ typeTree.reference
    THEN (IF typeTree.mutable THEN <<"&mut ">> ELSE <<"&">>)
         \o buildFullQualifiedType(typeTree.inner, Null, cacheDataOrTransaction)
    ELSE IF Has(typeTree, "vector") /\ typeTree.vector
    THEN <<"vector", "<">>
         \o buildFullQualifiedType(typeTree.element, Null, cacheDataOrTransaction)
         \o <<">">>
    ELSE IF IsStructTree(typeTree)
    THEN LET base == IF packageId # Null /\ packageId # <<>>
                     THEN packageId \o <<"::">> \o typeTree.module \o <<"::">> \o typeTree.name
                     ELSE typeTree.module \o <<"::">> \o typeTree.name
         IN  IF Len(typeTree.typeArgs) > 0
             THEN base \o <<"<">>
                  \o Join([i \in 1..Len(typeTree.typeArgs) |->
                             LET arg == typeTree.typeArgs[i]
                                 argPackage ==
                                     IF ~IsStructTree(arg) THEN Null
                                     ELSE IF arg.package = Null \/ arg.package = <<>>
                                     THEN findPackageForType(arg.module, arg.name,
                                                             cacheDataOrTransaction)
                                     ELSE arg.package
                             IN  buildFullQualifiedType(arg, argPackage,
                                                        cacheDataOrTransaction)],
                          <<", ">>)
                  \o <<">">>
             ELSE base
    ELSE <<>>

\* the tooltip formatTypeTreeToHTML attaches to a tree: the package of the tree,
\* looked up when it has none and given its 0x prefix, handed to buildFullQualifiedType
fullQualified(typeTree, cacheDataOrTransaction) ==
    LET found == IF ~IsStructTree(typeTree) THEN Null
                 ELSE IF typeTree.package = Null \/ typeTree.package = <<>>
                 THEN findPackageForType(typeTree.module, typeTree.name,
                                         cacheDataOrTransaction)
                 ELSE typeTree.package
        packageId == IF found # Null /\ ~startsWith0x(found) THEN <<"0", "x">> \o found
                     ELSE found
    IN  buildFullQualifiedType(typeTree, packageId, cacheDataOrTransaction)

(***************************************************************************)
(* The parser's inputs and operations.                                     *)
(***************************************************************************)
\* MoveTypes nested up to MaxNesting deep
MaxNesting == 3

PrimitiveType(name) == MoveType(Null, Null, [str |-> name], <<>>, TRUE)

StructType(package, module, name, typeArgs) ==
    MoveType([str |-> package], [str |-> module], [str |-> name], typeArgs, FALSE)

VectorType(innerType) ==
    MoveType(Null, [str |-> "vector"], [str |-> "vector"], <<innerType>>, TRUE)

\* the types without type arguments: primitives and structs (addresses are kept
\* without the 0x prefix, as fromTypeStructure leaves them)
LeafTypes ==
    { PrimitiveType("u8"), PrimitiveType("u64"), PrimitiveType("address"),
      StructType(<<"2">>, "sui", "SUI", <<>>),
      StructType(<<"0", "0", "a">>, "usdc", "USDC", <<>>),
      UnknownType }

\* the second type argument of a struct with two type arguments
SecondTypes == { PrimitiveType("u64"), StructType(<<"2">>, "sui", "SUI", <<>>) }

RECURSIVE TypesOfDepth(_)
TypesOfDepth(n) ==
    IF n = 0 THEN LeafTypes
    ELSE LET inner == TypesOfDepth(n - 1)
         IN  inner
             \cup { VectorType(t) : t \in inner }
             \cup { StructType(<<"2">>, "coin", "Coin", <<t>>) : t \in inner }
             \cup { StructType(<<"b">>, "pool", "Pool", <<a, b>>) :
                      a \in inner, b \in SecondTypes }
             \cup { StructType(<<"b">>, "pool", "Pool", <<b, a>>) :
                      a \in inner, b \in SecondTypes }

InitParser ==
    /\ pType \in TypesOfDepth(MaxNesting)
    /\ pOut = [str |-> Null, tree |-> Null, again |-> Null]
    /\ supplied = Null
    /\ IdlePage
    /\ IdleDecoder
    /\ IdleAddresses
    /\ IdleTypes
    /\ IdleViewer

\* pType.toFullyQualifiedString()
ToFullyQualifiedString ==
    /\ pType # Null
    /\ pOut.str = Null
    /\ pOut' = [pOut EXCEPT !.str = [str |-> toFullyQualifiedString(pType)]]
    /\ UNCHANGED <<pType, supplied, loadVars, tipVars, decVars, typVars, aggVars>>

\* parseTypeString of the rendered string
ParseTypeString ==
    /\ pType # Null
    /\ pOut.str # Null
    /\ pOut.tree = Null
    /\ pOut' = [pOut EXCEPT !.tree = [tree |-> parseTypeString(pOut.str.str)]]
    /\ UNCHANGED <<pType, supplied, loadVars, tipVars, decVars, typVars, aggVars>>

\* the fully qualified string of the parse tree
BuildFullQualifiedType ==
    /\ pType # Null
    /\ pOut.tree # Null
    /\ pOut.again = Null
    /\ \E cacheData \in {Null, [cache_entries |-> <<>>]} :
          pOut' = [pOut EXCEPT !.again = [str |-> fullQualified(pOut.tree.tree, cacheData)]]
    /\ UNCHANGED <<pType, supplied, loadVars, tipVars, decVars, typVars, aggVars>>

NextParser ==
    \/ ToFullyQualifiedString
    \/ ParseTypeString
    \/ BuildFullQualifiedType

SpecParser == InitParser /\ [][NextParser]_vars

(***************************************************************************)
(* The file loader: the file table, the FileReaders and the analyze button.*)
(***************************************************************************)
MaxSelections == 2

\* this.requiredFiles, each name without its .json
requiredFiles ==
    {"transaction_data", "transaction_effects", "transaction_gas_report",
     "replay_cache_summary", "move_call_info"}

\* the names a selected file can have
FileNames ==
    {"transaction_data.json", "transaction_effects.json", "transaction_gas_report.json",
     "replay_cache_summary.json", "move_call_info.json", "other.json", "notes.txt"}

\* file.name.endsWith('.json'), for the names of FileNames
endsWithJson(name) == name # "notes.txt"

\* the fileType identifyAndLoadFile gives a file name (Null: not one of the five)
fileTypeOf(fileName) ==
    IF fileName = "transaction_data.json" THEN [str |-> "transaction_data"]
    ELSE IF fileName = "transaction_effects.json" THEN [str |-> "transaction_effects"]
    ELSE IF fileName = "transaction_gas_report.json" THEN [str |-> "transaction_gas_report"]
    ELSE IF fileName = "replay_cache_summary.json" THEN [str |-> "replay_cache_summary"]
    ELSE IF fileName = "move_call_info.json" THEN [str |-> "move_call_info"]
    ELSE Null

\* this.files as the constructor leaves it
constructedFiles == [fileType \in requiredFiles |-> Null]

\* this.files as processDirectoryFiles resets it
resetFiles ==
    [fileType \in {"transaction_data", "transaction_effects", "transaction_gas_report",
                   "replay_cache_summary"} |-> Null]

\* the status indicators updateFileStatus leaves for a file table
updateFileStatus(table) ==
    [fileType \in requiredFiles |->
        IF Has(table, fileType) /\ table[fileType] # Null THEN "found" ELSE "missing"]

\* the disabled property updateAnalyzeButton leaves for a file table
updateAnalyzeButton(table) ==
    LET allFilesLoaded == \A fileType \in DOMAIN table : table[fileType] # Null
    IN  ~allFilesLoaded

\* the FileReaders identifyAndLoadFile starts for the files of a selection
identifyAndLoadFile(fileNames, sel) ==
    {[fileType |-> fileTypeOf(name).str, selection |-> sel] :
        name \in {n \in fileNames : fileTypeOf(n) # Null}}

\* what JSON.parse returns for the text of a file of a selection
ParsedContent(reader) == [selection |-> reader.selection, fileType |-> reader.fileType]

InitLoader ==
    /\ files = constructedFiles
    /\ readers = {}
    /\ selection = 0
    /\ analyzeDisabled = TRUE
    /\ fileStatus = updateFileStatus(constructedFiles)
    /\ loaded = {}
    /\ pc = "idle"
    /\ transaction = Null
    /\ viewerTransaction = Null
    /\ commandReturnTypes = Null
    /\ eff = Null
    /\ supplied = Null
    /\ IdleParser
    /\ IdleTooltip
    /\ IdleDecoder
    /\ IdleAddresses
    /\ IdleTypes

loaderFrame ==
    <<pc, transaction, viewerTransaction, commandReturnTypes, eff, supplied, parVars,
      tipVars, decVars, typVars>>

\* processDirectoryFiles(files) for a new selection of files
ProcessDirectoryFiles ==
    /\ selection < MaxSelections
    /\ \E fileNames \in SUBSET FileNames :
        /\ selection' = selection + 1
        /\ files' = resetFiles
        /\ fileStatus' = updateFileStatus(resetFiles)
        /\ readers' = readers \cup
                identifyAndLoadFile({n \in fileNames : endsWithJson(n)}, selection + 1)
    /\ loaded' = {}
    /\ UNCHANGED <<analyzeDisabled, loaderFrame>>

\* reader.onload of a pending FileReader whose text parses
OnLoad ==
    /\ \E reader \in readers :
        /\ readers' = readers \ {reader}
        /\ files' = With(files, reader.fileType, ParsedContent(reader))
        /\ loaded' = loaded \cup {reader.fileType}
    /\ fileStatus' = updateFileStatus(files')
    /\ analyzeDisabled' = updateAnalyzeButton(files')
    /\ UNCHANGED <<selection, loaderFrame>>

\* reader.onload of a pending FileReader whose text JSON.parse rejects
OnLoadParseError ==
    /\ \E reader \in readers : readers' = readers \ {reader}
    /\ UNCHANGED <<files, selection, analyzeDisabled, fileStatus, loaded, loaderFrame>>

NextLoader ==
    \/ ProcessDirectoryFiles
    \/ OnLoad
    \/ OnLoadParseError

SpecLoader == InitLoader /\ [][NextLoader]_vars

(***************************************************************************)
(* Tooltips: the active tooltip, its listeners and the hide timeouts.      *)
(***************************************************************************)
MaxTimers == 6

MaxListeners == 3

\* setTimeout: the timeouts with one more, which has the next id
setTimeout(pending, count, kind, node) ==
    pending \cup {[id |-> count + 1, kind |-> kind, node |-> node]}

\* clearTimeout(id)
clearTimeout(pending, id) == {t \in pending : t.id # id}

\* cancelHideTooltip: the timeouts it leaves pending
cancelHideTooltipTimers(pending, hideTimeout) ==
    IF hideTimeout # Null THEN clearTimeout(pending, hideTimeout.id) ELSE pending

\* scheduleHideTooltip run by each of n listeners of one mouseleave: every run sets a
\* timeout of its own and stores its id in this.tooltipHideTimeout
scheduleHideTooltipTimers(pending, count, n) ==
    pending \cup {[id |-> count + k, kind |-> "hide", node |-> 0] : k \in 1..n}

InitTooltip ==
    /\ IdleTooltip
    /\ IdleLoader
    /\ supplied = Null
    /\ IdleParser
    /\ IdleViewer
    /\ IdleDecoder
    /\ IdleAddresses
    /\ IdleTypes

tooltipFrame == <<supplied, parVars, loadVars, aggVars, decVars, typVars>>

\* mouseenter on an element of class custom-tooltip: showTooltip(event)
ShowTooltip ==
    /\ pointer = "outside"
    /\ tooltip # Null => tooltip.listeners < MaxListeners
    /\ pointer' = "element"
    /\ IF tooltip = Null
       THEN /\ tooltip' = [node |-> nodeCount + 1, opacity |-> "1", listeners |-> 1]
            /\ nodeCount' = nodeCount + 1
       ELSE /\ tooltip' = [tooltip EXCEPT !.opacity = "1", !.listeners = @ + 1]
            /\ nodeCount' = nodeCount
    /\ timers' = cancelHideTooltipTimers(timers, tooltipHideTimeout)
    /\ tooltipHideTimeout' = Null
    /\ UNCHANGED <<timerCount, tooltipFrame>>

\* mouseleave on an element of class custom-tooltip: scheduleHideTooltip()
MouseLeaveElement ==
    /\ pointer = "element"
    /\ timerCount < MaxTimers
    /\ pointer' = "outside"
    /\ timers' = scheduleHideTooltipTimers(timers, timerCount, 1)
    /\ timerCount' = timerCount + 1
    /\ tooltipHideTimeout' = [id |-> timerCount + 1]
    /\ UNCHANGED <<tooltip, nodeCount, tooltipFrame>>

\* mouseenter on the tooltip: cancelHideTooltip(), once for each listener showTooltip
\* has added to it
MouseEnterTooltip ==
    /\ pointer = "outside"
    /\ tooltip # Null
    /\ pointer' = "tooltip"
    /\ timers' = cancelHideTooltipTimers(timers, tooltipHideTimeout)
    /\ tooltipHideTimeout' = Null
    /\ UNCHANGED <<tooltip, timerCount, nodeCount, tooltipFrame>>

\* mouseleave on the tooltip: scheduleHideTooltip(), once for each listener showTooltip
\* has added to it
MouseLeaveTooltip ==
    /\ pointer = "tooltip"
    /\ timerCount + tooltip.listeners <= MaxTimers
    /\ pointer' = "outside"
    /\ timers' = scheduleHideTooltipTimers(timers, timerCount, tooltip.listeners)
    /\ timerCount' = timerCount + tooltip.listeners
    /\ tooltipHideTimeout' = [id |-> timerCount + tooltip.listeners]
    /\ UNCHANGED <<tooltip, nodeCount, tooltipFrame>>

\* a timeout of scheduleHideTooltip fires: hideTooltip()
HideTooltip ==
    /\ \E t \in timers :
        /\ t.kind = "hide"
        /\ IF tooltip # Null
           THEN /\ timerCount < MaxTimers
                /\ tooltip' = [tooltip EXCEPT !.opacity = "0"]
                /\ timers' = setTimeout(timers \ {t}, timerCount, "remove", tooltip.node)
                /\ timerCount' = timerCount + 1
           ELSE /\ timers' = timers \ {t}
                /\ UNCHANGED <<tooltip, timerCount>>
    /\ UNCHANGED <<tooltipHideTimeout, nodeCount, pointer, tooltipFrame>>

\* the timeout of hideTooltip fires: the tooltip it faded leaves the document
RemoveTooltip ==
    /\ \E t \in timers :
        /\ t.kind = "remove"
        /\ timers' = timers \ {t}
        /\ IF tooltip # Null /\ tooltip.node = t.node
           THEN /\ tooltip' = Null
                /\ pointer' = IF pointer = "tooltip" THEN "outside" ELSE pointer
           ELSE UNCHANGED <<tooltip, pointer>>
    /\ UNCHANGED <<tooltipHideTimeout, timerCount, nodeCount, tooltipFrame>>

NextTooltip ==
    \/ ShowTooltip
    \/ MouseLeaveElement
    \/ MouseEnterTooltip
    \/ MouseLeaveTooltip
    \/ HideTooltip
    \/ RemoveTooltip

SpecTooltip == InitTooltip /\ [][NextTooltip]_vars

(***************************************************************************)
(* Reference values the decoder's claims are stated against.               *)
(***************************************************************************)
\* the sum over i < w of bytes[i] * 256^i, as a magnitude
LittleEndian(bytes, w) == Trim(SubSeq(bytes, 1, w))

\* m * 128 + c on magnitudes (c < 128)
RECURSIVE MulFrom(_, _, _)
MulFrom(m, i, carry) ==
    IF i > Len(m) THEN (IF carry = 0 THEN <<>> ELSE <<carry>>)
    ELSE LET s == m[i] * 128 + carry
         IN  <<s % 256>> \o MulFrom(m, i + 1, s \div 256)

MulAdd128(m, c) == Trim(MulFrom(m, 1, c))

\* the unsigned number a ULEB128 prefix starting at byte pos (1-based) denotes, and
\* the position of its last byte; Null when the buffer ends inside the prefix
RECURSIVE RefUleb(_, _)
RefUleb(bytes, pos) ==
    IF pos > Len(bytes) THEN Null
    ELSE IF bytes[pos] < 128 THEN [value |-> MagOfNat(bytes[pos]), bytesRead |-> pos]
    ELSE LET rest == RefUleb(bytes, pos + 1)
         IN  IF rest = Null THEN Null
             ELSE [value |-> MulAdd128(rest.value, bytes[pos] % 128),
                   bytesRead |-> rest.bytesRead]

\* the magnitude n is at most the small number cap
FitsIn(n, cap) ==
    /\ Len(n) <= 3
    /\ Digit(n, 1) + 256 * Digit(n, 2) + 65536 * Digit(n, 3) <= cap

SmallNat(n) == Digit(n, 1) + 256 * Digit(n, 2) + 65536 * Digit(n, 3)

FixedWidthNames == {"u16", "u32", "u64", "u128", "u256"}

RefWidth(t) ==
    CASE t \in {"u8", "bool"} -> 1
      [] t = "u16" -> 2
      [] t = "u32" -> 4
      [] t = "u64" -> 8
      [] t = "u128" -> 16
      [] t \in {"u256", "address"} -> 32

\* the value of the first RefWidth(t) bytes of b as a t
RefValue(t, b) ==
    CASE t \in {"u8", "u16", "u32"} -> [number |-> LittleEndian(b, RefWidth(t)), neg |-> FALSE]
      [] t \in {"u64", "u128", "u256"} -> [bigint |-> LittleEndian(b, RefWidth(t))]
      [] t = "bool" -> [bool |-> b[1] # 0]
      [] t = "address" -> [str |-> <<"0", "x">> \o HexOf(b)]

\* C5: readUleb128 applied to the canonical ULEB128 encoding of n returns the value n
\* and bytesRead equal to the length of the encoding, for every n >= 0 (n at and
\* above 2^31 included).
UlebRoundTrip ==
    (dSrc = "uleb" /\ dOp = "readUleb128") =>
        /\ dOut # Null
        /\ NumOfInt32(dOut.value) = [number |-> dN, neg |-> FALSE]
        /\ dOut.bytesRead = Len(dBytes)

\* C6: the u16/u32/u64/u128/u256 decoder returns the little-endian sum of the first
\* w bytes, unsigned and untruncated, and no value when fewer than w bytes are given.
FixedWidthExact ==
    (dOp = "convertPrimitiveType" /\ toLowerCase(dType.str) \in FixedWidthNames) =>
        LET t == toLowerCase(dType.str)
        IN  IF Len(dBytes) < RefWidth(t) THEN dOut = Null
            ELSE dOut = RefValue(t, dBytes)

\* a u32 whose top byte has its high bit set has been decoded, and a buffer too
\* short for its type has been refused
FixedWidthWitness ==
    /\ dOp = "convertPrimitiveType"
    /\ dType = [str |-> "U32"]
    /\ dBytes = <<1, 2, 2, 255>>
    /\ dOut = [number |-> <<1, 2, 2, 255>>, neg |-> FALSE]

\* the type input is an instantiation of 0x1::option::Option
IsOptionInstance(typeInput) ==
    \/ /\ Has(typeInput, "DatatypeInstantiation")
       /\ typeInput.DatatypeInstantiation[1][1] \in OptionAddrs
       /\ typeInput.DatatypeInstantiation[1][2] = "option"
       /\ typeInput.DatatypeInstantiation[1][3] = "Option"
    \/ /\ Has(typeInput, "Datatype")
       /\ typeInput.Datatype[1] \in OptionAddrs
       /\ typeInput.Datatype[2] = "option"
       /\ typeInput.Datatype[3] = "Option"

\* the single type argument of the instantiation, Null when there is none
OptionTypeArg(typeInput) ==
    IF Has(typeInput, "DatatypeInstantiation")
       /\ Len(typeInput.DatatypeInstantiation[2]) = 1
    THEN typeInput.DatatypeInstantiation[2][1]
    ELSE Null

VectorDecodeExact ==
    (dOp = "convertVector" /\ toLowerCase(dType.str) # "signer") =>
        LET t    == toLowerCase(dType.str)
            size == RefWidth(t)
            p    == RefUleb(dBytes, 1)
        IN  IF p = Null THEN dOut = Null
            ELSE IF ~FitsIn(p.value, (Len(dBytes) - p.bytesRead) \div size) THEN dOut = Null
            ELSE dOut = [arr |-> [i \in 1..SmallNat(p.value) |->
                            RefValue(t, SubSeq(dBytes, p.bytesRead + (i - 1) * size + 1,
                                               p.bytesRead + i * size))]]

\* C9: normalizeAddress applied twice gives what it gives once; two spellings of one
\* address that differ only by the optional 0x prefix and leading zero digits
\* normalize to the same value, which is 0x followed by the digits without leading
\* zeros, and 0x0 when no digit remains.
AddressNormalForm ==
    aOut # Null =>
        /\ aOut.AA # Null => aOut.AA = aOut.A
        /\ (aOut.A # Null /\ aOut.B # Null) => aOut.A = aOut.B
        /\ aOut.A # Null =>
              aOut.A = [str |-> <<"0", "x">> \o (IF aCore = <<>> THEN <<"0">> ELSE aCore)]

\* "0x0002" and "2" have both been normalized to "0x2", and the result normalized again
AddressWitness ==
    /\ aA = <<"0", "x", "0", "0", "2">>
    /\ aB = <<"2">>
    /\ aOut # Null
    /\ aOut.A = [str |-> <<"0", "x", "2">>]
    /\ aOut.B = [str |-> <<"0", "x", "2">>]
    /\ aOut.AA = [str |-> <<"0", "x", "2">>]

\* C10: fromTypeStructure gives equal MoveType values for the struct, the
\* DatatypeInstantiation and the cache encoding of one (address, module, name,
\* type_args), and also for the Struct and the Datatype encoding when type_args is
\* empty.
EncodingsAgree ==
    tIdent # Null =>
        \A e1, e2 \in Encodings :
            ( /\ tOut[e1] # Null /\ tOut[e2] # Null
              /\ (tIdent.type_args # <<>> => {e1, e2} \cap {"Struct", "Datatype"} = {}) )
            => tOut[e1] = tOut[e2]

\* every encoding of 0x2::coin::Coin<0x2::sui::SUI> that carries type arguments has
\* been normalized, to the package without its prefix and the parsed argument
EncodingsWitness ==
    /\ tIdent = [address |-> <<"0", "x", "2">>, module |-> "coin", name |-> "Coin",
                 type_args |-> <<SuiStruct>>]
    /\ tOut.struct = MoveType([str |-> <<"2">>], [str |-> "coin"], [str |-> "Coin"],
                         <<MoveType([str |-> <<"2">>], [str |-> "sui"], [str |-> "SUI"],
                                    <<>>, FALSE)>>, FALSE)
    /\ tOut.DatatypeInstantiation # Null
    /\ tOut.cache # Null

\* C11: two encodings of one struct type whose package addresses differ only in the
\* 0x prefix or in leading zeros normalize to equal MoveType values (the package in
\* one normal form) and render the same fully-qualified string.
PackageNormalForm ==
    tAlt # Null =>
        \A e \in Encodings :
            tAlt.out[e] # Null =>
                /\ tAlt.out[e] = tOut[e]
                /\ tAlt.str[e] = tAlt.strIdent[e]

\* C12: fromTypeStructure never throws, whatever the JSON value; it returns a type
\* other than the Unknown sentinel for every listed encoding and the Unknown sentinel
\* for every value in none of them.
NormalizationTotal ==
    (tRaw # Null /\ tRaw.out # Null) =>
        /\ tRaw.out # TypeError
        /\ tRaw.class = "well formed" => tRaw.out # UnknownType
        /\ tRaw.class = "unrecognized" => tRaw.out = UnknownType

(***************************************************************************)
(* The aggregate's claims.                                                 *)
(***************************************************************************)
\* the transaction-structure artifact has been ingested
DataIngested ==
    /\ files # Null
    /\ files.transaction_data # Null
    /\ pc \in {"loadTransactionEffects", "loadTransactionGasReport", "loadPtbDetails",
               "return", "renderTransactionOverview", "rendered"}

\* the ids of the artifact's gas payment entries
GasPaymentIds ==
    LET gas_data == files.transaction_data.V1.gas_data
    IN  IF Has(gas_data, "payment") THEN {p[1] : p \in Range(gas_data.payment)} ELSE {}

\* the ids of the artifact's object inputs and of the packages its MoveCalls name
TransactionInputIds ==
    LET ptb == files.transaction_data.V1.kind.ProgrammableTransaction
        obj(i) == ptb.inputs[i].Object
    IN  {obj(i).ImmOrOwnedObject[1] :
            i \in {j \in DOMAIN ptb.inputs :
                      Has(ptb.inputs[j], "Object") /\ Has(obj(j), "ImmOrOwnedObject")}}
        \cup {obj(i).SharedObject.id :
            i \in {j \in DOMAIN ptb.inputs :
                      Has(ptb.inputs[j], "Object") /\ Has(obj(j), "SharedObject")}}
        \cup {ptb.commands[i].MoveCall.package :
            i \in {j \in DOMAIN ptb.commands : Has(ptb.commands[j], "MoveCall")}}

\* the effects artifact has been ingested
EffectsIngested ==
    /\ files # Null
    /\ files.transaction_effects # Null
    /\ pc \in {"loadTransactionGasReport", "loadPtbDetails", "return",
               "renderTransactionOverview", "rendered"}

\* the operation tags the effects artifact gives an id, in either shape
TagsOf(objectId) ==
    LET json == files.transaction_effects
        list(key) == IF Has(json.V1, key) THEN json.V1[key] ELSE <<>>
    IN  IF Has(json, "V1")
        THEN {"Created" : e \in {x \in Range(list("created")) : x[1][1] = objectId}}
             \cup {"None" : e \in {x \in Range(list("mutated")) : x[1][1] = objectId}}
             \cup {"Deleted" : e \in {x \in Range(list("deleted")) : x[1] = objectId}}
        ELSE IF Has(json, "V2") /\ Has(json.V2, "changed_objects")
        THEN {e[2].id_operation.str :
                 e \in {x \in Range(json.V2.changed_objects) : x[1] = objectId}}
        ELSE {}

StatusOfTag(tag) ==
    CASE tag = "Created" -> "Created"
      [] tag = "Deleted" -> "Deleted"
      [] tag = "None" -> "Modified"

\* C14: once the effects artifact is ingested, every object record has one of the
\* four statuses: the one its operation tag maps to when the effects mention its id,
\* Accessed exactly when they do not; the created, modified and deleted objects
\* are pairwise disjoint.
ObjectStatuses ==
    EffectsIngested =>
        /\ \A i \in DOMAIN transaction._objects :
              LET o == transaction._objects[i]
              IN  /\ o.status \in {[str |-> "Created"], [str |-> "Modified"],
                                    [str |-> "Deleted"], [str |-> "Accessed"]}
                  /\ TagsOf(o.object_id) # {}
                        => o.status.str \in {StatusOfTag(tag) : tag \in TagsOf(o.object_id)}
                  /\ (o.status = [str |-> "Accessed"]) <=> (TagsOf(o.object_id) = {})
        /\ Range(getCreatedObjects(transaction)) \cap Range(getModifiedObjects(transaction)) = {}
        /\ Range(getCreatedObjects(transaction)) \cap Range(getDeletedObjects(transaction)) = {}
        /\ Range(getModifiedObjects(transaction)) \cap Range(getDeletedObjects(transaction)) = {}

\* one record of each status: 0xN created, 0xG modified, 0xA deleted, 0xP accessed
ObjectStatusesWitness ==
    /\ EffectsIngested
    /\ pc = "loadTransactionGasReport"
    /\ {o.object_id : o \in Range(getCreatedObjects(transaction))} = {"0xN"}
    /\ {o.object_id : o \in Range(getModifiedObjects(transaction))} = {"0xG"}
    /\ {o.object_id : o \in Range(getDeletedObjects(transaction))} = {"0xA"}
    /\ \E i \in DOMAIN transaction._objects :
          /\ transaction._objects[i].object_id = "0xP"
          /\ transaction._objects[i].status = [str |-> "Accessed"]

\* the ids of the cache artifact's entries
CachedIds ==
    IF files.replay_cache_summary # Null /\ Has(files.replay_cache_summary, "cache_entries")
    THEN {e.object_id : e \in Range(files.replay_cache_summary.cache_entries)}
    ELSE {}

\* the ids the effects report as created that the cache does not hold
CreatedOutsideCache ==
    {id \in Range(EffectIds) \cup {"0xP"} : "Created" \in TagsOf(id)} \ CachedIds

\* C15: every object the effects report as created and the cache does not hold has
\* exactly one object record, with status Created and source Runtime, when the
\* effects are ingested and from then on, whatever the gas payments and inputs are.
CreatedAreRuntime ==
    EffectsIngested =>
        \A id \in CreatedOutsideCache :
            /\ Cardinality({i \in DOMAIN transaction._objects :
                               transaction._objects[i].object_id = id}) = 1
            /\ \A i \in DOMAIN transaction._objects :
                  transaction._objects[i].object_id = id
                      => /\ transaction._objects[i].status = [str |-> "Created"]
                         /\ transaction._objects[i].source = [str |-> "Runtime"]

\* what a Transaction says of its objects, their versions aside
StatusSemantics(t) ==
    {[object_id |-> o.object_id, status |-> o.status, source |-> o.source] :
        o \in Range(t._objects)}

\* the records loadTransactionEffects added to those of eff.base
Synthesized(t) ==
    {[object_id |-> t._objects[i].object_id, status |-> t._objects[i].status,
      object_type |-> t._objects[i].object_type] :
        i \in (Len(eff.base._objects) + 1)..Len(t._objects)}

ObjectSources ==
    DataIngested =>
        \A i \in DOMAIN transaction._objects :
            LET o == transaction._objects[i]
            IN  /\ o.object_id \in GasPaymentIds => o.source = [str |-> "Gas"]
                /\ o.object_id \in TransactionInputIds \ GasPaymentIds
                       => o.source = [str |-> "Input"]
                /\ o.object_id \notin TransactionInputIds \cup GasPaymentIds
                       => o.source = [str |-> "Runtime"]

\* 0xA is a gas payment and an input and is Gas, the package 0xP is Input
ObjectSourcesWitness ==
    /\ DataIngested
    /\ pc = "loadTransactionEffects"
    /\ "0xA" \in GasPaymentIds \cap TransactionInputIds
    /\ \E i \in DOMAIN transaction._objects :
          /\ transaction._objects[i].object_id = "0xA"
          /\ transaction._objects[i].source = [str |-> "Gas"]
    /\ \E i \in DOMAIN transaction._objects :
          /\ transaction._objects[i].object_id = "0xP"
          /\ transaction._objects[i].source = [str |-> "Input"]

\* the transaction_data artifact is loaded and has no sender field
SenderMissing ==
    /\ files # Null
    /\ files.transaction_data # Null
    /\ ~Has(files.transaction_data.V1, "sender")

\* C1: when the transaction_data artifact has no sender field, Transaction.fromFiles
\* aborts and returns no Transaction, and analyzeTransaction neither stores nor
\* renders one.
MissingSenderAborts ==
    SenderMissing =>
        /\ pc \notin {"return", "renderTransactionOverview", "rendered"}
        /\ viewerTransaction = Null
        /\ commandReturnTypes = Null

\* the gas report has been ingested
GasReportLoaded ==
    /\ pc \in {"loadPtbDetails", "return", "renderTransactionOverview", "rendered"}
    /\ files.transaction_gas_report # Null

\* C2: after loadTransactionGasReport, for every rebate_rate in 0..10000 the report
\* carries (0 included), each entry of per_object_breakup has non_refundable_fee =
\* floor(storage_rebate * (10000 - rebate_rate) / 10000), whatever fee the input holds.
FeeDerivedFromRebateRate ==
    (GasReportLoaded /\ Has(files.transaction_gas_report, "rebate_rate")) =>
        LET report == files.transaction_gas_report
        IN  \A i \in DOMAIN report.per_object_storage :
                transaction.gas_data.per_object_breakup[i].non_refundable_fee
                = (NumOr0(Get(report.per_object_storage[i][2], "storage_rebate"))
                   * (10000 - report.rebate_rate.num)) \div 10000

\* the command index (from 0) the first element of the untyped MakeMoveVec cmd names,
\* -1 when cmd is not an untyped MakeMoveVec whose first element is a result
FirstElementCommand(cmd) ==
    IF Has(cmd, "MakeMoveVec") /\ cmd.MakeMoveVec[1] = Null /\ Len(cmd.MakeMoveVec[2]) > 0
    THEN LET firstElem == cmd.MakeMoveVec[2][1]
         IN  IF Has(firstElem, "Result") THEN firstElem.Result
             ELSE IF Has(firstElem, "NestedResult") THEN firstElem.NestedResult[1]
             ELSE -1
    ELSE -1

\* the coin type of the SplitCoins cmd: Coin<SUI> for the gas coin, the catalog's type
\* for an object input the catalog holds, Null otherwise
CatalogCoinType(t, cmd) ==
    LET coin == cmd.SplitCoins[1]
    IN  IF coin = [str |-> "GasCoin"] THEN GasCoinType
        ELSE IF objectInputOf(coin, ptbInputs(t)) # Null
        THEN LET id == inputObjectId(objectInputOf(coin, ptbInputs(t))).str
                 i  == findObject(t._objects, id)
             IN  IF i # 0 /\ Has(t._objects[i].object_type, "MoveObject")
                 THEN fromTypeStructure(t._objects[i].object_type.MoveObject)
                 ELSE Null
        ELSE Null

\* the position in getCommands' result of the command parsed from raw command i
\* (the commands of unknown kind before it are not in the result)
ParsedPosition(commands, i) ==
    Cardinality({j \in 1..i : parseCommand(commands[j], NewTransaction, <<>>, <<>>) # Null})

\* C3: a MakeMoveVec without explicit type whose first element is Result(k) or
\* NestedResult(k, j), command k an earlier SplitCoins of the gas coin or of a
\* catalogued object input, gets that coin type as its element type from getCommands,
\* and vector<that coin type> as its recorded return type.
MakeMoveVecFromSplitCoins ==
    pc = "rendered" =>
        LET t        == viewerTransaction
            commands == ptbCommands(t)
        IN  \A i \in DOMAIN commands :
                LET k == FirstElementCommand(commands[i])
                IN  ( /\ k >= 0 /\ k + 1 < i
                      /\ Has(commands[k + 1], "SplitCoins")
                      /\ CatalogCoinType(t, commands[k + 1]) # Null )
                    => LET coinType == CatalogCoinType(t, commands[k + 1])
                       IN  /\ getCommands(t)[ParsedPosition(commands, i)].elementType
                              = coinType
                           /\ commandReturnTypes.arr[i]
                              = [str |-> <<"vector", "<">>
                                         \o toFullyQualifiedString(coinType) \o <<">">>]

\* the type a chain of references resolves to: the coin type of a SplitCoins, the
\* vector type of a MakeMoveVec (explicit, or of the command its first element names)
RECURSIVE ChainType(_, _, _)
ChainType(t, commands, i) ==
    LET cmd == commands[i]
        k   == FirstElementCommand(cmd)
    IN  IF Has(cmd, "SplitCoins") THEN CatalogCoinType(t, cmd)
        ELSE IF Has(cmd, "MakeMoveVec") /\ cmd.MakeMoveVec[1] # Null
        THEN MoveType(Null, [str |-> "vector"], [str |-> "vector"],
                      <<fromTypeStructure(cmd.MakeMoveVec[1])>>, TRUE)
        ELSE IF k >= 0 /\ k + 1 < i
        THEN LET inner == ChainType(t, commands, k + 1)
             IN  IF inner # Null
                 THEN MoveType(Null, [str |-> "vector"], [str |-> "vector"], <<inner>>, TRUE)
                 ELSE Null
        ELSE Null

\* C4: a MakeMoveVec without explicit type whose first element names an earlier
\* MakeMoveVec without explicit type, itself resolvable through its own first element
\* (a SplitCoins, or another such MakeMoveVec), gets the inner command's vector type as
\* its element type: no link of a resolvable chain stays unresolved.
MakeMoveVecChainResolved ==
    pc = "rendered" =>
        LET t        == viewerTransaction
            commands == ptbCommands(t)
        IN  \A i \in DOMAIN commands :
                LET k == FirstElementCommand(commands[i])
                IN  ( /\ k >= 0 /\ k + 1 < i
                      /\ FirstElementCommand(commands[k + 1]) >= 0
                      /\ ChainType(t, commands, k + 1) # Null )
                    => getCommands(t)[ParsedPosition(commands, i)].elementType
                       = ChainType(t, commands, k + 1)

\* the signature the call-site artifact declares for raw command i (Null: none)
DeclaredSignature(i) ==
    IF files.move_call_info # Null /\ Has(files.move_call_info, "command_signatures")
       /\ i \in DOMAIN files.move_call_info.command_signatures
    THEN files.move_call_info.command_signatures[i]
    ELSE Null

Void == [str |-> <<"void">>]

\* C17: the return type recorded for a command follows from its kind: the declared
\* return types of a MoveCall (void without any), amounts.length times the resolved
\* coin type for SplitCoins, void for MergeCoins, TransferObjects and Upgrade, the
\* UpgradeCap type for Publish.
ReturnTypeByKind ==
    pc = "rendered" =>
        LET t        == viewerTransaction
            commands == ptbCommands(t)
        IN  \A i \in DOMAIN commands :
                LET cmd      == commands[i]
                    recorded == commandReturnTypes.arr[i]
                    sig      == DeclaredSignature(i)
                IN  /\ Has(cmd, "MoveCall") =>
                          IF sig # Null /\ Has(sig, "return_types") /\ sig.return_types # <<>>
                          THEN /\ Has(recorded, "arr")
                               /\ Len(recorded.arr) = Len(sig.return_types)
                               /\ \A j \in DOMAIN recorded.arr :
                                     recorded.arr[j]
                                     = [str |-> ptbTypeToString(sig.return_types[j])]
                          ELSE recorded = Void
                    /\ Has(cmd, "SplitCoins") =>
                          /\ Has(recorded, "arr")
                          /\ Len(recorded.arr) = Len(cmd.SplitCoins[2])
                          /\ CatalogCoinType(t, cmd) # Null =>
                                \A j \in DOMAIN recorded.arr :
                                    recorded.arr[j]
                                    = [str |-> toFullyQualifiedString(CatalogCoinType(t, cmd))]
                    /\ (Has(cmd, "MergeCoins") \/ Has(cmd, "TransferObjects")
                           \/ Has(cmd, "Upgrade")) => recorded = Void
                    /\ Has(cmd, "Publish") =>
                          recorded = [str |-> <<"0", "x">> \o SuiPackage
                                              \o <<"::", "package", "::", "UpgradeCap">>]

\* the number of values raw command k (counted from 0) returns
ReturnCount(commands, k) ==
    LET cmd == commands[k + 1]
        sig == DeclaredSignature(k + 1)
    IN  IF Has(cmd, "SplitCoins") THEN Len(cmd.SplitCoins[2])
        ELSE IF Has(cmd, "MoveCall")
        THEN IF sig # Null /\ Has(sig, "return_types") THEN Len(sig.return_types) ELSE 0
        ELSE IF Has(cmd, "MakeMoveVec") \/ Has(cmd, "Publish") THEN 1
        ELSE 0

\* the reference (k, j) names no value: there is no command k, or it has no value j
Dangling(commands, k, j) ==
    k >= Len(commands) \/ j >= ReturnCount(commands, k)

\* the (k, j) the first element of a MakeMoveVec without explicit type refers to
FirstElementReference(cmd) ==
    LET firstElem == cmd.MakeMoveVec[2][1]
    IN  IF Has(firstElem, "Result") THEN <<firstElem.Result, 0>>
        ELSE firstElem.NestedResult

\* C18: a reference to a command beyond the command list or to a value beyond the
\* command's return values, and an object input the catalog does not hold, resolve
\* to the unknown/null sentinel: inferCommandReturnType says unknown (void for a
\* command without values), a MakeMoveVec inferring from such a reference has no
\* element type, a SplitCoins of such an input has no coin type.
CrossReferencesDegrade ==
    pc = "rendered" =>
        LET t        == viewerTransaction
            commands == ptbCommands(t)
        IN  /\ \A k \in 0..(Len(commands) + 1), j \in 0..MaxCommands :
                  Dangling(commands, k, j)
                      => inferCommandReturnType(commandReturnTypes, k, j)
                         \in {[str |-> <<"unknown">>], Void}
            /\ \A i \in DOMAIN commands :
                  /\ FirstElementCommand(commands[i]) >= 0 =>
                        LET ref == FirstElementReference(commands[i])
                        IN  Dangling(commands, ref[1], ref[2])
                                => getCommands(t)[ParsedPosition(commands, i)].elementType
                                   = Null
                  /\ ( /\ Has(commands[i], "SplitCoins")
                       /\ objectInputOf(commands[i].SplitCoins[1], ptbInputs(t)) # Null
                       /\ inputObjectId(objectInputOf(commands[i].SplitCoins[1],
                                                      ptbInputs(t))).str \notin CachedIds )
                        => getCommands(t)[ParsedPosition(commands, i)].coinType = Null

\* C19: getCommands returns one Command per raw command, in program order: element
\* i of the result describes raw command i, whatever kinds the list holds.
CommandsAligned ==
    pc = "rendered" =>
        LET t        == viewerTransaction
            commands == ptbCommands(t)
        IN  /\ Len(getCommands(t)) = Len(commands)
            /\ \A i \in DOMAIN commands :
                  i \in DOMAIN getCommands(t)
                      => \/ Has(commands[i], getCommands(t)[i].type)
                         \/ DOMAIN commands[i] \cap
                               {"MoveCall", "SplitCoins", "MergeCoins", "MakeMoveVec",
                                "TransferObjects", "Publish", "Upgrade"} = {}

KnownKinds ==
    {"MoveCall", "SplitCoins", "MergeCoins", "MakeMoveVec", "TransferObjects", "Publish",
     "Upgrade"}

\* the transaction t with its command list cut after command i
CutAfter(t, i) ==
    [t EXCEPT !.kind.ProgrammableTransaction.commands = SubSeq(@, 1, i)]

\* C20: what is resolved for command i depends on the inputs, the catalog and the
\* commands before it only: the Command parsed for it is the same when the commands
\* after it are taken away, and a MakeMoveVec whose first element refers to itself
\* or to a later command gets no element type from that reference.
NoLookAhead ==
    pc = "rendered" =>
        LET t        == viewerTransaction
            commands == ptbCommands(t)
        IN  \A i \in DOMAIN commands :
                DOMAIN commands[i] \cap KnownKinds # {} =>
                    LET parsed == getCommands(t)[ParsedPosition(commands, i)]
                    IN  /\ parsed = getCommands(CutAfter(t, i))[ParsedPosition(commands, i)]
                        /\ ( /\ FirstElementCommand(commands[i]) >= 0
                             /\ FirstElementCommand(commands[i]) + 1 >= i )
                              => parsed.elementType = Null

(***************************************************************************)
(* The decoder: addresses and the inference of a type from the length.     *)
(***************************************************************************)
\* C21: the address decoder yields a value only for a buffer of exactly 32 bytes,
\* and the value is 0x followed by the 64 lowercase hex digits of the bytes in
\* buffer order; a shorter or longer buffer does not decode to an address.
AddressDecodeExact ==
    (dOp = "convertPrimitiveType" /\ toLowerCase(dType.str) = "address") =>
        IF Len(dBytes) = 32
        THEN /\ dOut = [str |-> <<"0", "x">> \o HexOf(dBytes)]
             /\ Len(dOut.str) = 66
             /\ \A i \in 3..66 : dOut.str[i] \in Range(HexDigits)
        ELSE dOut = Null

\* the type the fixed table gives for a buffer, Null when it gives none
TableType(bytes, addressExpected) ==
    CASE Len(bytes) = 1 -> IF bytes[1] \in {0, 1} THEN [str |-> "bool"] ELSE [str |-> "u8"]
      [] Len(bytes) = 2 -> [str |-> "u16"]
      [] Len(bytes) = 4 -> [str |-> "u32"]
      [] Len(bytes) = 8 -> [str |-> "u64"]
      [] Len(bytes) = 16 -> [str |-> "u128"]
      [] Len(bytes) = 32 -> IF addressExpected THEN [str |-> "address"] ELSE [str |-> "u256"]
      [] OTHER -> Null

\* what is displayed for a buffer decoded against the type T: the formatted value,
\* or the raw hex when T is no type or the buffer does not decode against it
DisplayAs(bytes, T) ==
    IF T = Null \/ convertPureValue(bytes, T) = Null
    THEN truncatePureValue(fullHex(bytes))
    ELSE truncatePureValue(formatPureValue(convertPureValue(bytes, T), T))

\* C22: without an explicit type the decoder infers the type from the buffer length
\* by the fixed table (1: bool if the byte is 0 or 1, else u8; 2: u16; 4: u32;
\* 8: u64; 16: u128; 32: address when an address is expected, else u256; any
\* other length: no type, raw hex); with an explicit type the table is never
\* consulted, even if decoding against the explicit type fails.
InferenceTable ==
    /\ dOp = "inferPureValueType" =>
          dOut = TableType(dBytes, dType.context = "address")
    /\ (dOp = "formatPureInput" /\ ~dType.forceHex) =>
          IF dType.explicitType = Null
          THEN dOut = DisplayAs(dBytes, TableType(dBytes, dType.context = "address"))
          ELSE dOut = DisplayAs(dBytes, dType.explicitType)

\* four bytes were formatted against the explicit type U64: the table's u32 was not
\* used and the raw hex is shown
InferenceTableWitness ==
    /\ dOp = "formatPureInput"
    /\ dType = [context |-> "general", explicitType |-> [str |-> "U64"], forceHex |-> FALSE]
    /\ dBytes = <<1, 2, 2, 255>>
    /\ dOut = truncatePureValue(fullHex(dBytes))
    /\ DisplayAs(dBytes, TableType(dBytes, FALSE)) # dOut

(***************************************************************************)
(* The aggregate: what survives the ingestion of the later artifacts.      *)
(***************************************************************************)
\* Transaction.fromFiles has returned and was given all five artifacts
AllFiveIngested ==
    /\ pc \in {"return", "renderTransactionOverview", "rendered"}
    /\ \A name \in DOMAIN files : files[name] # Null

\* C23: the artifacts are ingested in the order cache, transaction structure,
\* effects, gas report, call signatures, and the fields an earlier artifact owns
\* survive the later steps: after fromFiles with all five artifacts the epoch and
\* the checkpoint of the transaction are the cache artifact's epoch_id and
\* checkpoint, whatever the effects artifact holds.
CacheFieldsSurvive ==
    AllFiveIngested =>
        /\ transaction.epoch = OrNull(Get(files.replay_cache_summary, "epoch_id"))
        /\ transaction.checkpoint = OrNull(Get(files.replay_cache_summary, "checkpoint"))

(***************************************************************************)
(* The parser's claims.                                                    *)
(***************************************************************************)
\* the tree a MoveType stands for: its package with the 0x prefix its string shows,
\* its module and name, and the trees of its type arguments
RECURSIVE TreeOf(_)
TreeOf(type) ==
    IF type.isPrimitive /\ Len(type.typeArgs) = 0 THEN [primitive |-> <<type.name.str>>]
    ELSE IF type.isPrimitive THEN [vector |-> TRUE, element |-> TreeOf(type.typeArgs[1])]
    ELSE [package |-> IF type.package = Null THEN Null ELSE withPrefix(type.package.str),
          module |-> <<type.module.str>>, name |-> <<type.name.str>>,
          typeArgs |-> [i \in 1..Len(type.typeArgs) |-> TreeOf(type.typeArgs[i])]]

\* the part of the round trip that parseTypeString and splitTypeArgs answer for
ParsedTreeFaithful ==
    (pType # Null /\ pOut.tree # Null) => pOut.tree.tree = TreeOf(pType)

\* C24: rendered types round-trip through the display-string parser: for a MoveType
\* built from primitives, vectors and structs, parseTypeString of its fully
\* qualified string is a tree with the same package, module, name and, recursively,
\* type arguments (argument lists split only at the commas of depth 0), and
\* rendering that tree again gives the original string.
RenderParseRoundTrip ==
    /\ ParsedTreeFaithful
    /\ (pType # Null /\ pOut.again # Null) => pOut.again = pOut.str

(***************************************************************************)
(* The command list: termination of the inference.                         *)
(***************************************************************************)
\* command i is a MakeMoveVec whose first element refers to command k
RefersTo(commands, i, k) ==
    /\ i \in DOMAIN commands
    /\ Has(commands[i], "MakeMoveVec")
    /\ ~Truthy(commands[i].MakeMoveVec[1])
    /\ FirstElementCommand(commands[i]) = k - 1

\* (the calls nested: fromRawCommand, _inferTypeFromCommand, and the fromRawCommand of
\* the command referred to)
\* C25: getCommands terminates for every finite command list, lists in which the
\* first element of a MakeMoveVec refers to the MakeMoveVec itself, to a later
\* command or to a cycle of MakeMoveVec commands included: it returns one Command
\* for each command of a known kind, and the calls the inference of a command
\* nests are at most three deep, whatever the references.
InferenceTerminates ==
    pc = "rendered" =>
        LET t        == viewerTransaction
            commands == ptbCommands(t)
        IN  /\ Len(getCommands(t))
                 = Cardinality({i \in DOMAIN commands : DOMAIN commands[i] \cap KnownKinds # {}})
            /\ \A i \in DOMAIN commands :
                  Has(commands[i], "MakeMoveVec") =>
                      fromRawCommandNesting(commands[i], t, ptbInputs(t), [arr |-> commands],
                                            DepthLimit) <= 3

\* the commands of a rendered transaction hold two MakeMoveVec commands that refer
\* to each other, and the inference of the first nested three calls
InferenceTerminatesWitness ==
    /\ pc = "rendered"
    /\ LET commands == ptbCommands(viewerTransaction)
       IN  /\ RefersTo(commands, 1, 2)
           /\ RefersTo(commands, 2, 1)
           /\ Len(getCommands(viewerTransaction)) = Len(commands)
           /\ fromRawCommandNesting(commands[1], viewerTransaction,
                                    ptbInputs(viewerTransaction), [arr |-> commands],
                                    DepthLimit) = 3

(***************************************************************************)
(* The two paths that resolve the type of a result reference.              *)
(***************************************************************************)
\* the strings the table holds for a result without a resolved type
UnresolvedStrings ==
    { [str |-> <<"unknown">>], [str |-> <<"void">>], [str |-> <<"T">>],
      [str |-> <<"vector", "<", "T", ">">>] }

\* the type _inferTypeFromCommand resolves for result j of command k (from 0), and
\* the one inferCommandReturnType reports from the table, are the same
PathsAgreeOn(t, k, j) ==
    LET inferred == _inferTypeFromCommand(commandAt(ptbCommands(t), k), j, t, ptbInputs(t))
        reported == inferCommandReturnType(commandReturnTypes, k, j)
    IN  IF inferred = Null THEN reported \in UnresolvedStrings
        ELSE reported = [str |-> toFullyQualifiedString(inferred)]

\* C26: the two result-type inference paths agree: for every reference Result(k) or
\* NestedResult(k, j), whatever the kind of command k and whatever j, the type
\* _inferTypeFromCommand resolves is the type inferCommandReturnType reports from
\* the commandReturnTypes table: both unresolved, or the same fully qualified type.
InferencePathsAgree ==
    pc = "rendered" =>
        \A k \in 0..(Len(ptbCommands(viewerTransaction)) - 1), j \in 0..MaxCommands :
            PathsAgreeOn(viewerTransaction, k, j)

(***************************************************************************)
(* The artifacts after the aggregation.                                    *)
(***************************************************************************)
\* transaction._rawData: each load* stores the artifact object it is handed
\* (this._rawData.x = json), the very objects the viewer's file table holds
_rawData == files

\* C27: aggregation leaves the input artifacts unchanged: after Transaction.fromFiles
\* _rawData.transaction_data, which the Raw Json tab shows as the original artifact,
\* equals the transaction-structure artifact as it was supplied; attaching the call
\* signatures in loadPtbDetails adds no field to any command of that artifact.
ArtifactsUnchanged ==
    pc \in {"return", "renderTransactionOverview", "rendered"} =>
        _rawData.transaction_data = supplied.transaction_data

(***************************************************************************)
(* The file loader's claims.                                               *)
(***************************************************************************)
\* C28: for every completion order of the FileReader callbacks, the analyze button is
\* enabled only if all five files of requiredFiles have been loaded and parsed since
\* the last reset of the file table.
AnalyzeOnlyWhenAllLoaded ==
    ~analyzeDisabled => requiredFiles \subseteq loaded

\* C29: after processDirectoryFiles for a new selection, every non-null entry of the
\* file table was read from a file of that most recent selection: an onload callback
\* pending from an earlier selection never writes into the reset table.
TableFromLatestSelection ==
    selection > 0 =>
        \A fileType \in DOMAIN files :
            files[fileType] # Null => files[fileType].selection = selection

(***************************************************************************)
(* The tooltips' claim.                                                    *)
(***************************************************************************)
\* C30: while the pointer is over the tooltip or over a tooltip-bearing element, no hide
\* timer is pending that can fire and remove the tooltip: cancelHideTooltip cancels every
\* timer scheduled by earlier scheduleHideTooltip calls, for every sequence of
\* mouseenter/mouseleave events and repeated showTooltip calls on one tooltip element.
NoHideTimerWhileHovered ==
    pointer \in {"element", "tooltip"} => ~\E t \in timers : t.kind = "hide"

====
